---- MODULE Spec2Model ----
(***************************************************************************)
(* Study-guide generation pipeline of yossefc/studio.                       *)
(*                                                                          *)
(* Part I   the model cascade            (genkit: generateTextWithFallback) *)
(* Part II  the explanation memoizer     (explainTalmudSegment)             *)
(* Part III the canonical guide cache and the guide orchestrator            *)
(*          (generateMultiSourceStudyGuide)                                 *)
(* Part IV  the siman alignment engine   (getOrBuildSimanAlignment)         *)
(* Part V   the chunkers                 (chunkStructuredText, chunkText,   *)
(*          chunkWithLimits)                                                *)
(* Part VI  the similarity index         (selectBestRefsBySimilarity)       *)
(* Part VII one attempt of the cascade   (generateWithTimeout)              *)
(* Part VIII one paragraph of the alignment build (buildSimanAlignmentJob) *)
(* Part IX  the fetch of one corpus      (fetchSourceWithStrategy)          *)
(*                                                                          *)
(* The persistent store is an external collaborator: its reads and writes   *)
(* are atomic and succeed, except the terminal batch commit of the          *)
(* canonical guide and the cache_write_failed mark that follows a failed    *)
(* commit. The operations of the alignment cache follow the specification   *)
(* of the alignment engine (conditional lock, ready and failed writes).     *)
(***************************************************************************)
EXTENDS Integers, Sequences, FiniteSets, TLC

VARIABLES
  llm,        \* the running generateTextWithFallback call
  flow,       \* the running explainTalmudSegment call
  rabanout,   \* structured explanation store: path -> record
  legacy,     \* legacy explanationCacheEntries: key -> record
  calls,      \* finished explainTalmudSegment calls, in order
  canon,      \* the canonical guide record of the request fingerprint
  now,        \* the store clock, in milliseconds
  callers,    \* the generateMultiSourceStudyGuide calls, one per caller
  explained,  \* explanation records by chunk id, as the orchestrator sees them
  upstream,   \* chunks per corpus of the requested paragraph
  clients,    \* the callers that issue the request
  saves,      \* committed saveCanonicalGuide batches
  lockCall,   \* a single tryAcquireCanonicalLock transaction and its outcome
  al,         \* the alignment record of one (section, siman), its clock and callers
  ck,         \* one chunker run: the fragments given and the chunks produced
  sim,        \* one similarity selection: the query, the index and the scores
  gw,         \* one generateWithTimeout call: its race, its result and its log
  job,        \* one paragraph of buildSimanAlignmentJob: its links and its entry
  fs          \* one fetchSourceWithStrategy call and the tasks its payload starts

evars == <<llm, flow, rabanout, legacy, calls>>
gvars == <<canon, now, callers, explained, upstream, clients, saves>>
ovars == <<lockCall, al, ck, sim, gw, job, fs>>
vars == <<llm, flow, rabanout, legacy, calls, canon, now, callers, explained,
          upstream, clients, saves, lockCall, al, ck, sim, gw, job, fs>>

None == "none"

\* Absent values of the other kinds: error, text, hash or summary, record.
NoError == {"none"}
NoText == [heb |-> -1, len |-> -1]
NoValue == <<>>
NoRecord == [exists |-> FALSE]

(***************************************************************************)
(* Part I. Model cascade                                                    *)
(***************************************************************************)

\* getModelConfig(): the three configured model names (defaults).
ModelPrimary == "gemini-2.5-pro"
ModelCost == "gemini-2.5-flash"
ModelFallback == "gemini-2.5-flash-lite"
Models == {ModelPrimary, ModelCost, ModelFallback}

RECURSIVE Dedupe(_, _)
\* Array.from(new Set(candidates)): first occurrences, in order.
Dedupe(s, seen) ==
  IF s = <<>> THEN <<>>
  ELSE IF Head(s) \in seen THEN Dedupe(Tail(s), seen)
       ELSE <<Head(s)>> \o Dedupe(Tail(s), seen \cup {Head(s)})

\* getModelCandidates(preferred): preferred, cost, fallback, deduplicated.
getModelCandidates(preferred) ==
  Dedupe(<<preferred, ModelCost, ModelFallback>>, {})

\* An error is the set of marker substrings its lower-cased message contains.
Markers == {"model", "not found", "not supported", "404", "503", "timeout",
            "temporar", "rate limit", "429", "quota", "resource_exhausted",
            "resource exhausted"}

\* The error messages the provider (or the attempt timeout) produces here.
ErrNotFound == {"model", "404", "not found"}
ErrQuota == {"429", "quota", "resource_exhausted"}
ErrRateLimit429 == {"429", "rate limit"}
ErrTimeout == {"timeout"}
ErrOther == {}
ErrorMessages ==
  {ErrNotFound, ErrQuota, ErrRateLimit429, ErrTimeout, ErrOther}

isModelUnavailableError(e) ==
  "model" \in e /\ ({"not found", "not supported", "404"} \cap e) # {}

isTransientError(e) ==
  ({"503", "timeout", "temporar", "rate limit"} \cap e) # {}

isQuotaExhaustedError(e) ==
  ({"429", "quota", "resource_exhausted", "resource exhausted"} \cap e) # {}

\* A text is known by its length and its count of Hebrew code points
\* (U+0590..U+05FF); generateWithTimeout returns it trimmed, so a text of
\* length 0 is the empty string.
TextEmpty == [heb |-> 0, len |-> 0]
TextLow == [heb |-> 4, len |-> 10]
TextEdge == [heb |-> 7, len |-> 10]
TextHebrew == [heb |-> 10, len |-> 10]
LLMTexts == {TextEmpty, TextLow, TextEdge}

\* 400 * 2 ** (attempt - 1)
RECURSIVE Pow2(_)
Pow2(n) == IF n = 0 THEN 1 ELSE 2 * Pow2(n - 1)
BackoffBaseMs == 400
backoffMs(attempt) == BackoffBaseMs * Pow2(attempt - 1)

LlmIdle ==
  [pc |-> "idle", cands |-> <<>>, idx |-> 0, attempt |-> 0, maxRetries |-> 0,
   lastError |-> NoError, sleepMs |-> 0,
   text |-> TextEmpty, modelUsed |-> None, usedFallback |-> FALSE]

LlmStart_PrimaryFirst(preferredModel, maxRetries) ==
  [LlmIdle EXCEPT !.pc = "attempt", !.cands = getModelCandidates(ModelPrimary),
                  !.idx = 1, !.attempt = 1, !.maxRetries = maxRetries]

\* generateTextWithFallback(options): the state on entry.
LlmStart(preferredModel, maxRetries) ==
  [LlmIdle EXCEPT !.pc = "attempt", !.cands = getModelCandidates(preferredModel),
                  !.idx = 1, !.attempt = 1, !.maxRetries = maxRetries]

ResultModel_Primary(l) == l.cands[1]

\* modelUsed of a successful attempt: the candidate that answered.
ResultModel(l) == l.cands[l.idx]

LlmSucceed_Continue(l, text) ==
  IF l.idx < Len(l.cands)
  THEN [l EXCEPT !.idx = @ + 1, !.attempt = 1, !.text = text]
  ELSE [l EXCEPT !.pc = "returned", !.text = text, !.modelUsed = ResultModel(l),
                 !.usedFallback = (ResultModel(l) # l.cands[1])]

\* The attempt returned text: return { text, modelUsed, usedFallback }.
LlmSucceed(l, text) ==
  [l EXCEPT !.pc = "returned", !.text = text, !.modelUsed = ResultModel(l),
            !.usedFallback = (ResultModel(l) # l.cands[1])]

\* break out of the attempt loop: next candidate, or throw lastError.
LlmNextCandidate(l) ==
  IF l.idx < Len(l.cands)
  THEN [l EXCEPT !.idx = @ + 1, !.attempt = 1]
  ELSE [l EXCEPT !.pc = "thrown"]

LlmFail_RetryAnyTransient(l, e) ==
  LET l1 == [l EXCEPT !.lastError = e]
  IN IF isTransientError(e) /\ l.attempt < l.maxRetries
     THEN [l1 EXCEPT !.pc = "sleep", !.sleepMs = backoffMs(l.attempt)]
     ELSE LlmNextCandidate(l1)

\* The catch block of one failed attempt.
LlmFail(l, e) ==
  LET l1 == [l EXCEPT !.lastError = e]
  IN IF isModelUnavailableError(e) \/ isQuotaExhaustedError(e)
     THEN LlmNextCandidate(l1)
     ELSE IF ~isTransientError(e) \/ l.attempt = l.maxRetries
          THEN LlmNextCandidate(l1)
          ELSE [l1 EXCEPT !.pc = "sleep", !.sleepMs = backoffMs(l.attempt)]

LlmWake_SameAttempt(l) ==
  [l EXCEPT !.pc = "attempt", !.sleepMs = 0]

\* await sleep(backoffMs) is over: the next attempt on the same candidate.
LlmWake(l) ==
  [l EXCEPT !.pc = "attempt", !.attempt = @ + 1, !.sleepMs = 0]

(***************************************************************************)
(* Part II. Explanation memoizer                                            *)
(***************************************************************************)

PROMPT_VERSION == "v3.4-rabbanut"
OldPromptVersion == "v3.3"

\* HEBREW_RATIO_THRESHOLD = 0.7, as the fraction 7/10.
HebrewRatioNum == 7
HebrewRatioDen == 10

\* Non-empty and hebrewChars.length / text.length >= HEBREW_RATIO_THRESHOLD.
validateHebrewOutput(text) ==
  text.len > 0 /\ text.heb * HebrewRatioDen >= HebrewRatioNum * text.len

\* JavaScript truthiness of a stored string.
Truthy(text) == text.len > 0

\* createHash('sha256').update(x).digest('hex'): injective on the inputs used.
sha256(x) == <<"sha256", x>>

\* Normalized references: the same location with and without the book prefix.
TrefFull == [prefix |-> "shulchan arukh, ", section |-> "orach chayim", siman |-> 24, seif |-> 1]
TrefShort == [prefix |-> "", section |-> "orach chayim", siman |-> 24, seif |-> 1]
Trefs == {TrefFull, TrefShort}

\* SECTION_KEY_MAP[sectionEng], with the fallback for an unlisted section.
SectionKey(tref) ==
  IF tref.section = "orach chayim" /\ tref.prefix \in {"shulchan arukh, ", ""}
  THEN "orach_chayim"
  ELSE <<"slug", tref.prefix, tref.section>>

parseTrefForPath(tref) ==
  [sectionKey |-> SectionKey(tref), siman |-> tref.siman, seif |-> tref.seif]

\* rabanout/<sectionKey>/simanim/<siman>/seifim/<seif>/<sourceKey>/<chunkOrder>
rabanutDocPath(input) ==
  LET p == parseTrefForPath(input.normalizedTref) IN
  <<"rabanout", p.sectionKey, p.siman, p.seif, input.sourceKey, input.chunkOrder>>

generateLegacyCacheKey(input, modelName) ==
  sha256(<<input.sourceKey, input.normalizedTref, input.chunkOrder, input.rawHash,
           PROMPT_VERSION, modelName>>)

\* Chunk texts a caller may ask to explain.
SegmentA == "segment-a"
SegmentB == "segment-b"
Segments == {SegmentA, SegmentB}

\* The input processSourceChunks builds: rawHash is the hash of the chunk text.
MakeInput(tref, segment, modelName) ==
  [currentSegment |-> segment, normalizedTref |-> tref, chunkOrder |-> 0,
   rawHash |-> sha256(segment), sourceKey |-> "shulchan_arukh", modelName |-> modelName]

Inputs ==
  {MakeInput(TrefFull, SegmentA, ModelPrimary), MakeInput(TrefFull, SegmentB, ModelPrimary),
   MakeInput(TrefShort, SegmentA, ModelPrimary), MakeInput(TrefFull, SegmentA, ModelCost)}

Paths == {rabanutDocPath(i) : i \in Inputs}
LegacyKeys == {generateLegacyCacheKey(i, m) : i \in Inputs, m \in Models}

RabanoutRecord(segment, text, hash, model, version, validated) ==
  [exists |-> TRUE, rawText |-> segment, explanationText |-> text, rawHash |-> hash, modelName |-> model,
   promptVersion |-> version, validated |-> validated]

\* A legacy entry; promptVersion is None in entries written without one.
LegacyRecord(text, model, version, validated) ==
  [exists |-> TRUE, explanationText |-> text, modelName |-> model, promptVersion |-> version,
   validated |-> validated]

\* data.promptVersion || PROMPT_VERSION
VersionOrCurrent(data) ==
  IF data.promptVersion # None THEN data.promptVersion ELSE PROMPT_VERSION

FlowIdle ==
  [pc |-> "idle", input |-> NoRecord, explanation |-> NoText, modelUsed |-> None,
   validated |-> FALSE, firstValid |-> None, repairs |-> 0, unavailable |-> FALSE,
   found |-> [exists |-> FALSE, rawHash |-> NoValue, promptVersion |-> None]]

\* The record of a finished call: what it returned and what it did.
CallRecord(f, thrown, explanation, modelUsed, cacheHit, version, validated, hitFrom, writes) ==
  [input |-> f.input, thrown |-> thrown, explanation |-> explanation,
   modelUsed |-> modelUsed, cacheHit |-> cacheHit, promptVersion |-> version,
   validated |-> validated, hitFrom |-> hitFrom, writes |-> writes,
   firstValid |-> f.firstValid, repairs |-> f.repairs, unavailable |-> f.unavailable,
   found |-> f.found]

\* What a lookup found under the structured key: its hash and prompt version.
Found(data) ==
  IF data = NoRecord THEN FlowIdle.found
  ELSE [exists |-> TRUE, rawHash |-> data.rawHash, promptVersion |-> data.promptVersion]

AcceptsRecord_AnyHash(data, input) ==
  /\ data # NoRecord
  /\ Truthy(data.explanationText)
  /\ data.promptVersion = PROMPT_VERSION

\* data?.explanationText && data?.rawHash === input.rawHash
\*   && data?.promptVersion === PROMPT_VERSION
AcceptsRecord(data, input) ==
  /\ data # NoRecord
  /\ Truthy(data.explanationText)
  /\ data.rawHash = input.rawHash
  /\ data.promptVersion = PROMPT_VERSION

\* The first candidate whose legacy entry is usable, or 0.
LegacyHitIndex(input) ==
  LET cands == getModelCandidates(input.modelName)
      usable == {i \in 1..Len(cands) :
                   LET d == legacy[generateLegacyCacheKey(input, cands[i])] IN
                   d # NoRecord /\ Truthy(d.explanationText) /\ d.modelName # None}
  IN IF usable = {} THEN 0 ELSE CHOOSE i \in usable : \A j \in usable : i <= j

\* The cascade answered on the first attempt of its second candidate, after
\* the preferred model was found unavailable.
AnsweredAfterUnavailable(l) ==
  l.pc = "returned" /\ l.idx = 2 /\ l.attempt = 1 /\ isModelUnavailableError(l.lastError)

MaxCalls == 2

\* explainTalmudSegment(input): a call starts; a repeated call repeats the input.
StartCall(input) ==
  /\ flow.pc = "idle"
  /\ Len(calls) < MaxCalls
  /\ calls # <<>> => input = calls[Len(calls)].input
  /\ flow' = [FlowIdle EXCEPT !.pc = "rabanout", !.input = input]
  /\ UNCHANGED <<llm, rabanout, legacy, calls>>
  /\ UNCHANGED <<gvars, ovars>>

\* 1) the structured record: accepted only with the same hash and version.
RabanoutLookup ==
  /\ flow.pc = "rabanout"
  /\ LET data == rabanout[rabanutDocPath(flow.input)]
         f == [flow EXCEPT !.found = Found(data)]
     IN
     IF AcceptsRecord(data, flow.input)
     THEN /\ calls' = Append(calls,
                  CallRecord(f, FALSE, data.explanationText,
                             IF data.modelName # None THEN data.modelName ELSE "cached",
                             TRUE, data.promptVersion, data.validated, "rabanout", 0))
          /\ flow' = FlowIdle
     ELSE /\ flow' = [f EXCEPT !.pc = "legacy"]
          /\ calls' = calls
  /\ UNCHANGED <<llm, rabanout, legacy>>
  /\ UNCHANGED <<gvars, ovars>>

\* 2) the legacy entries of the candidates; a hit is migrated and returned,
\* a miss starts the generation with maxRetries 3.
LegacyLookup ==
  /\ flow.pc = "legacy"
  /\ LET k == LegacyHitIndex(flow.input) IN
     IF k # 0
     THEN LET data == legacy[generateLegacyCacheKey(flow.input,
                                getModelCandidates(flow.input.modelName)[k])] IN
          /\ rabanout' = [rabanout EXCEPT ![rabanutDocPath(flow.input)] =
                 RabanoutRecord(flow.input.currentSegment, data.explanationText,
                                flow.input.rawHash, data.modelName, VersionOrCurrent(data),
                                data.validated)]
          /\ calls' = Append(calls,
                 CallRecord(flow, FALSE, data.explanationText, data.modelName, TRUE,
                            VersionOrCurrent(data), data.validated, "legacy", 1))
          /\ flow' = FlowIdle
          /\ llm' = llm
     ELSE /\ llm' = LlmStart(flow.input.modelName, 3)
          /\ flow' = [flow EXCEPT !.pc = "generate"]
          /\ UNCHANGED <<rabanout, calls>>
  /\ UNCHANGED legacy
  /\ UNCHANGED <<gvars, ovars>>

\* One attempt of the cascade returns text (generateWithTimeout resolves).
LlmAttemptOk(text) ==
  /\ llm.pc = "attempt"
  /\ llm' = LlmSucceed(llm, text)
  /\ UNCHANGED <<flow, rabanout, legacy, calls>>
  /\ UNCHANGED <<gvars, ovars>>

\* One attempt of the cascade throws (provider error or attempt timeout).
LlmAttemptFail(e) ==
  /\ llm.pc = "attempt"
  /\ llm' = LlmFail(llm, e)
  /\ UNCHANGED <<flow, rabanout, legacy, calls>>
  /\ UNCHANGED <<gvars, ovars>>

\* The backoff sleep between two attempts on one candidate ends.
LlmBackoff ==
  /\ llm.pc = "sleep"
  /\ llm' = LlmWake(llm)
  /\ UNCHANGED <<flow, rabanout, legacy, calls>>
  /\ UNCHANGED <<gvars, ovars>>

GeneratedRecord_Unhashed(input, explanation, modelUsed, validated) ==
  RabanoutRecord(input.currentSegment, explanation, NoValue, modelUsed,
                 PROMPT_VERSION, validated)

GeneratedRecord_PreferredModel(input, explanation, modelUsed, validated) ==
  RabanoutRecord(input.currentSegment, explanation, input.rawHash, input.modelName,
                 PROMPT_VERSION, validated)

\* The structured record written after a generation.
GeneratedRecord(input, explanation, modelUsed, validated) ==
  RabanoutRecord(input.currentSegment, explanation, input.rawHash, modelUsed,
                 PROMPT_VERSION, validated)

\* The write of the record and the return of a generated explanation.
WriteAndReturn(f, explanation, modelUsed, validated) ==
  /\ rabanout' = [rabanout EXCEPT ![rabanutDocPath(f.input)] =
         GeneratedRecord(f.input, explanation, modelUsed, validated)]
  /\ calls' = Append(calls,
         CallRecord(f, FALSE, explanation, modelUsed, FALSE, PROMPT_VERSION,
                    validated, None, 1))
  /\ flow' = FlowIdle
  /\ llm' = LlmIdle

\* The generation returned: validate; a valid text is written and returned,
\* an invalid one starts the repair round on the model that produced it.
GenerateReturned ==
  /\ flow.pc = "generate"
  /\ llm.pc = "returned"
  /\ LET f == [flow EXCEPT !.explanation = llm.text, !.modelUsed = llm.modelUsed,
                           !.validated = validateHebrewOutput(llm.text),
                           !.firstValid = IF validateHebrewOutput(llm.text)
                                          THEN "valid" ELSE "invalid",
                           !.unavailable = AnsweredAfterUnavailable(llm)]
     IN IF f.validated
        THEN WriteAndReturn(f, f.explanation, f.modelUsed, TRUE)
        ELSE /\ llm' = LlmStart(f.modelUsed, 2)
             /\ flow' = [f EXCEPT !.pc = "repair", !.repairs = @ + 1]
             /\ UNCHANGED <<rabanout, calls>>
  /\ UNCHANGED legacy
  /\ UNCHANGED <<gvars, ovars>>

\* The repair round returned: its text is validated, written and returned.
RepairReturned ==
  /\ flow.pc = "repair"
  /\ llm.pc = "returned"
  /\ WriteAndReturn(flow, llm.text, llm.modelUsed, validateHebrewOutput(llm.text))
  /\ UNCHANGED legacy
  /\ UNCHANGED <<gvars, ovars>>

\* The cascade threw its last error: nothing catches it, the call rejects.
CascadeThrown ==
  /\ flow.pc \in {"generate", "repair"}
  /\ llm.pc = "thrown"
  /\ calls' = Append(calls,
         CallRecord(flow, TRUE, NoText, None, FALSE, None, FALSE, None, 0))
  /\ flow' = FlowIdle
  /\ llm' = LlmIdle
  /\ UNCHANGED <<rabanout, legacy>>
  /\ UNCHANGED <<gvars, ovars>>

(***************************************************************************)
(* Part III. Canonical guide cache and guide orchestrator                   *)
(***************************************************************************)

CANONICAL_LOCK_STALE_MS == 600000
CANONICAL_READY_WAIT_ATTEMPTS == 20
CANCELLATION_CHECK_INTERVAL == 3

\* The corpora of the request, in SOURCE_PROCESSING_ORDER.
SOURCE_PROCESSING_ORDER == <<"tur", "beit_yosef", "shulchan_arukh">>
Corpora == {"tur", "shulchan_arukh"}
Callers == {"a", "b"}

\* The clock starts positive and advances by steps of the stale threshold.
TickMs == CANONICAL_LOCK_STALE_MS
MaxTicks == 2

\* Chunks per corpus: few where callers race, more where a run is cancelled.
MaxGuideChunks == 1
MaxCancelChunks == 4

ChunkIds == {<<k, i>> : k \in Corpora, i \in 0..(MaxCancelChunks - 1)}

\* No document under the fingerprint; an updatedAt of 0 is a missing one.
CanonAbsent ==
  [status |-> "absent", summaryText |-> NoValue, updatedAt |-> 0, error |-> None,
   chunks |-> {}, sources |-> <<>>, validated |-> FALSE]

tryAcquireCanonicalLock_StaleAtTen(rec, t) ==
  IF rec.status = "ready" /\ rec.summaryText # NoValue
  THEN [state |-> "ready", record |-> rec]
  ELSE IF /\ rec.status = "processing"
          /\ rec.updatedAt # 0
          /\ (t - rec.updatedAt) < CANONICAL_LOCK_STALE_MS
       THEN [state |-> "wait", record |-> rec]
       ELSE [state |-> "acquired",
             record |-> [rec EXCEPT !.status = "processing", !.updatedAt = t]]

tryAcquireCanonicalLock_NeverWait(rec, t) ==
  IF rec.status = "ready" /\ rec.summaryText # NoValue
  THEN [state |-> "ready", record |-> rec]
  ELSE [state |-> "acquired",
        record |-> [rec EXCEPT !.status = "processing", !.updatedAt = t]]

\* The lock transaction at time t: the outcome and the record it leaves.
tryAcquireCanonicalLock(rec, t) ==
  IF rec.status # "absent"
  THEN IF rec.status = "ready" /\ rec.summaryText # NoValue
       THEN [state |-> "ready", record |-> rec]
       ELSE LET isStale == rec.updatedAt = 0
                           \/ (t - rec.updatedAt) > CANONICAL_LOCK_STALE_MS
            IN IF rec.status = "processing" /\ ~isStale
               THEN [state |-> "wait", record |-> rec]
               ELSE [state |-> "acquired",
                     record |-> [rec EXCEPT !.status = "processing", !.updatedAt = t]]
  ELSE [state |-> "acquired",
        record |-> [rec EXCEPT !.status = "processing", !.updatedAt = t]]

\* The chunk sub-records a reader keeps: raw text and explanation non-empty.
UsableChunks(rec) == {ch \in rec.chunks : ch.explanationText = "text"}

NoGuide == [summary |-> NoValue, chunks |-> {}, sources |-> <<>>]

\* The source keys in the order localeCompare puts them.
LocaleOrder == <<"beit_yosef", "mishnah_berurah", "shulchan_arukh", "tur">>
LocaleRank(key) == CHOOSE i \in 1..Len(LocaleOrder) : LocaleOrder[i] = key
isKnownSourceKey(key) == \E i \in 1..Len(LocaleOrder) : LocaleOrder[i] = key

sortSources(sources) ==
  SortSeq(sources, LAMBDA x, y : LocaleRank(x) < LocaleRank(y))

\* request.sources of each caller: the same corpora, hence the same
\* fingerprint, listed in the order the caller chose.
RequestSources ==
  [c \in Callers |-> IF c = "a" THEN <<"tur", "shulchan_arukh">>
                     ELSE <<"shulchan_arukh", "tur">>]

loadCanonicalGuide_AllChunks(rec) ==
  IF rec.status # "ready" \/ rec.summaryText = NoValue THEN NoGuide
  ELSE IF rec.chunks = {} THEN NoGuide
       ELSE [summary |-> rec.summaryText,
             chunks |-> {[id |-> ch.id, explanation |-> ch.explanationText,
                          cacheHit |-> TRUE] : ch \in rec.chunks},
             sources |-> SelectSeq(rec.sources, isKnownSourceKey)]

\* loadCanonicalGuide: the stored guide, every chunk marked cacheHit, or null.
loadCanonicalGuide(rec) ==
  IF rec.status # "ready" \/ rec.summaryText = NoValue THEN NoGuide
  ELSE IF rec.chunks = {} \/ UsableChunks(rec) = {} THEN NoGuide
       ELSE [summary |-> rec.summaryText,
             chunks |-> {[id |-> ch.id, explanation |-> ch.explanationText,
                          cacheHit |-> TRUE] : ch \in UsableChunks(rec)},
             sources |-> SelectSeq(rec.sources, isKnownSourceKey)]

\* saveCanonicalGuide: one batch replaces the chunk sub-records and sets ready.
saveCanonicalGuide(rec, sources, guide, t) ==
  [rec EXCEPT !.status = "ready", !.summaryText = guide.summary, !.updatedAt = t,
              !.sources = sortSources(sources),
              !.chunks = {[id |-> ch.id, explanationText |-> ch.explanation]
                          : ch \in guide.chunks}]

markCanonicalFailed_Skip(rec, reason, t) == rec

\* markCanonicalFailed: a merge write of status, error and updatedAt.
markCanonicalFailed(rec, reason, t) ==
  [rec EXCEPT !.status = "failed", !.error = reason, !.updatedAt = t]

ShouldCheck_OnlyFirst(i) == i = 0

\* i % CANCELLATION_CHECK_INTERVAL === 0
ShouldCheck(i) == i % CANCELLATION_CHECK_INTERVAL = 0

TaskNone ==
  [pc |-> "none", n |-> 0, i |-> 0, chunks |-> <<>>, further |-> 0,
   previousSegment |-> NoValue, previousExplanation |-> None]

\* processSourceChunks(rawChunks, ...) on entry, for a corpus of n chunks.
TaskStart(n) == [TaskNone EXCEPT !.pc = "loop", !.n = n]

CallerIdle ==
  [pc |-> "idle", state |-> None, first |-> None, concurrent |-> FALSE,
   afterReady |-> FALSE, hasCanonicalLock |-> FALSE, attempt |-> 0,
   tasks |-> [k \in Corpora |-> TaskNone], flag |-> FALSE, result |-> None,
   guide |-> NoGuide, fetches |-> 0, llmCalls |-> 0, summaries |-> 0,
   summaryValidated |-> FALSE, validated |-> FALSE]

\* The processed chunks of a caller's tasks, as sourceResults holds them.
SourceResultChunks(c) ==
  UNION {{[id |-> <<k, i - 1>>, explanation |-> c.tasks[k].chunks[i].explanation,
           cacheHit |-> c.tasks[k].chunks[i].cacheHit]
          : i \in 1..Len(c.tasks[k].chunks)} : k \in Corpora}

\* The call returns: its outcome and, on success, its guideData.
Return(c, result, guide) ==
  [c EXCEPT !.pc = "done", !.result = result, !.guide = guide]

\* The call returns the guide it loaded; validated is the flag of the record.
Loaded(c, guide, validated) ==
  [Return(c, "loaded", guide) EXCEPT !.validated = validated]

\* hasCanonicalLock = canonicalState === 'acquired', then the pipeline starts.
EnterPipeline(c, state) ==
  [c EXCEPT !.pc = "fetch", !.state = state, !.hasCanonicalLock = (state = "acquired")]

CatchError_NoMark(c, rec, reason) ==
  /\ canon' = canon
  /\ callers' = [callers EXCEPT ![c] = Return(rec, "error", NoGuide)]

CatchError_Unconditional(c, rec, reason) ==
  /\ canon' = markCanonicalFailed(canon, reason, now)
  /\ callers' = [callers EXCEPT ![c] = Return(rec, "error", NoGuide)]

\* The catch block: mark the record failed if the lock is held, return the error.
CatchError(c, rec, reason) ==
  /\ canon' = IF rec.hasCanonicalLock
              THEN markCanonicalFailed(canon, reason, now) ELSE canon
  /\ callers' = [callers EXCEPT ![c] = Return(rec, "error", NoGuide)]

\* Another caller is inside the pipeline with the lock, taken at most 10 minutes ago.
PeerHoldsFreshLock(c) ==
  \E d \in Callers \ {c} :
    /\ callers[d].hasCanonicalLock
    /\ callers[d].pc \notin {"idle", "done"}
    /\ now - canon.updatedAt <= CANONICAL_LOCK_STALE_MS

\* generateMultiSourceStudyGuide starts: the first lock transaction.
Begin(c) ==
  /\ c \in clients
  /\ callers[c].pc = "idle"
  /\ LET r == tryAcquireCanonicalLock(canon, now)
         c0 == [callers[c] EXCEPT !.first = r.state, !.state = r.state,
                                  !.concurrent = PeerHoldsFreshLock(c),
                                  !.afterReady = (saves > 0)]
     IN /\ canon' = r.record
        /\ callers' = [callers EXCEPT ![c] =
              CASE r.state = "ready" -> [c0 EXCEPT !.pc = "load"]
                [] r.state = "wait" -> [c0 EXCEPT !.pc = "poll"]
                [] OTHER -> EnterPipeline(c0, r.state)]
  /\ UNCHANGED <<now, explained, upstream, clients, saves>>
  /\ UNCHANGED <<evars, ovars>>

\* State 'ready': load the guide and return it, or go on to a second lock attempt.
LoadReady(c) ==
  /\ callers[c].pc = "load"
  /\ LET g == loadCanonicalGuide(canon) IN
     callers' = [callers EXCEPT ![c] =
        IF g # NoGuide THEN Loaded(@, g, canon.validated) ELSE [@ EXCEPT !.pc = "relock"]]
  /\ UNCHANGED <<canon, now, explained, upstream, clients, saves>>
  /\ UNCHANGED <<evars, ovars>>

\* The second lock attempt after a ready record that could not be loaded.
Relock(c) ==
  /\ callers[c].pc = "relock"
  /\ LET r == tryAcquireCanonicalLock(canon, now) IN
     /\ canon' = r.record
     /\ callers' = [callers EXCEPT ![c] =
           IF r.state = "wait" THEN [@ EXCEPT !.pc = "poll", !.state = r.state]
           ELSE EnterPipeline(@, r.state)]
  /\ UNCHANGED <<now, explained, upstream, clients, saves>>
  /\ UNCHANGED <<evars, ovars>>

\* waitForCanonicalGuide: one load attempt, then a sleep of 1.5 s.
Poll(c) ==
  /\ callers[c].pc = "poll"
  /\ callers[c].attempt < CANONICAL_READY_WAIT_ATTEMPTS
  /\ LET g == loadCanonicalGuide(canon) IN
     callers' = [callers EXCEPT ![c] =
        IF g # NoGuide THEN Loaded(@, g, canon.validated) ELSE [@ EXCEPT !.attempt = @ + 1]]
  /\ UNCHANGED <<canon, now, explained, upstream, clients, saves>>
  /\ UNCHANGED <<evars, ovars>>

\* The wait returned null: the lock is tried again.
RelockAfterWait(c) ==
  /\ callers[c].pc = "poll"
  /\ callers[c].attempt = CANONICAL_READY_WAIT_ATTEMPTS
  /\ LET r == tryAcquireCanonicalLock(canon, now) IN
     /\ canon' = r.record
     /\ callers' = [callers EXCEPT ![c] =
           IF r.state = "ready" THEN [@ EXCEPT !.pc = "reload", !.state = r.state]
           ELSE EnterPipeline(@, r.state)]
  /\ UNCHANGED <<now, explained, upstream, clients, saves>>
  /\ UNCHANGED <<evars, ovars>>

\* State 'ready' after the wait: load and return, or run without the lock.
LoadAfterWait(c) ==
  /\ callers[c].pc = "reload"
  /\ LET g == loadCanonicalGuide(canon) IN
     callers' = [callers EXCEPT ![c] =
        IF g # NoGuide THEN Loaded(@, g, canon.validated) ELSE EnterPipeline(@, "ready")]
  /\ UNCHANGED <<canon, now, explained, upstream, clients, saves>>
  /\ UNCHANGED <<evars, ovars>>

\* The corpora the upstream has text for.
Available == {k \in Corpora : upstream[k] > 0}

\* The upstream fetches settle: the available corpora were fetched (ok), or
\* every fetch failed; with no fetched source the run throws.
Fetch(c, ok) ==
  /\ callers[c].pc = "fetch"
  /\ LET c1 == [callers[c] EXCEPT !.fetches = @ + 1] IN
     IF ~ok \/ Available = {}
     THEN CatchError(c, c1, "no_source")
     ELSE /\ callers' = [callers EXCEPT ![c] =
                [c1 EXCEPT !.pc = "chunks",
                           !.tasks = [k \in Corpora |->
                              IF k \in Available THEN TaskStart(upstream[k])
                              ELSE TaskNone]]]
          /\ canon' = canon
  /\ UNCHANGED <<now, explained, upstream, clients, saves>>
  /\ UNCHANGED <<evars, ovars>>

TaskRunning_Never(t) == FALSE

\* A corpus task still has a loop iteration to run.
TaskRunning(t) == t.pc \in {"loop", "call"}

\* Top of the loop at an index where the cancellation flag is read.
TaskCheck(c, k) ==
  /\ callers[c].pc = "chunks"
  /\ LET t == callers[c].tasks[k] IN
     /\ t.pc = "loop"
     /\ ShouldCheck(t.i)
     /\ callers' = [callers EXCEPT ![c].tasks[k].pc =
                      IF callers[c].flag THEN "cancelled" ELSE "call"]
  /\ UNCHANGED <<canon, now, explained, upstream, clients, saves>>
  /\ UNCHANGED <<evars, ovars>>

\* An explanation of '' is falsy, like the null before the first chunk.
HasExplanation(e) == e \notin {None, "empty"}

explainRequest_AllPrevious(k, t) ==
  [currentSegment |-> <<k, t.i>>, chunkOrder |-> t.i,
   previousSegments |-> [j \in 1..Len(t.chunks) |-> <<k, j - 1>>],
   previousExplanations |-> [j \in 1..Len(t.chunks) |-> t.chunks[j].explanation]]

\* The input of the explainTalmudSegment call of chunk t.i of corpus k; a raw
\* text is known by the id of its chunk.
explainRequest(k, t) ==
  [currentSegment |-> <<k, t.i>>, chunkOrder |-> t.i,
   previousSegments |-> IF t.previousSegment # NoValue
                        THEN <<t.previousSegment>> ELSE <<>>,
   previousExplanations |-> IF HasExplanation(t.previousExplanation)
                            THEN <<t.previousExplanation>> ELSE <<>>]

NoContext == [source |-> NoValue, explanation |-> None]

\* contextPrompt: the first previous segment and `previousExplanations[0] || ''`.
contextPrompt(input) ==
  IF Len(input.previousSegments) > 0
  THEN [source |-> input.previousSegments[1],
        explanation |-> IF Len(input.previousExplanations) > 0
                        THEN input.previousExplanations[1] ELSE "empty"]
  ELSE NoContext

\* What an explainTalmudSegment call can do given the stored record of the chunk.
\* A stored explanation is a hit whether it validated ("text") or not
\* ("unvalidated"); a generated one is a text that validated, a text that
\* did not, or empty.
ExplainOutcomes(stored) ==
  IF stored \in {"text", "unvalidated"} THEN {"hit"}
  ELSE {"text", "unvalidated", "empty", "throw"}

\* result.explanation and result.validated of an outcome other than throw.
ExplanationOf(outcome) == IF outcome = "empty" THEN "empty" ELSE "text"
ValidatedOf(outcome, stored) == IF outcome = "hit" THEN stored = "text" ELSE outcome = "text"

\* A guide flag that looks at the summary only.
guideValidated_SummaryOnly(summaryValidated, tasks) == summaryValidated

\* summaryResult.validated && sourceResults.every(sr => sr.chunks.every(c => c.validated))
guideValidated(summaryValidated, tasks) ==
  /\ summaryValidated
  /\ \A k \in Corpora : \A i \in 1..Len(tasks[k].chunks) : tasks[k].chunks[i].validated

\* The explanation call of chunk i of corpus k returns or throws.
TaskExplain(c, k, outcome) ==
  /\ callers[c].pc = "chunks"
  /\ LET t == callers[c].tasks[k]
         id == <<k, t.i>>
         miss == outcome # "hit"
         c1 == [callers[c] EXCEPT
                  !.llmCalls = IF miss THEN @ + 1 ELSE @,
                  !.tasks[k].further = IF miss /\ callers[c].flag THEN @ + 1 ELSE @]
     IN /\ t.pc = "call" \/ (t.pc = "loop" /\ ~ShouldCheck(t.i))
        /\ outcome \in ExplainOutcomes(explained[id])
        /\ IF outcome = "throw"
           THEN /\ CatchError(c, c1, "explain_failed")
                /\ explained' = explained
           ELSE /\ explained' = IF miss THEN [explained EXCEPT ![id] = outcome]
                                 ELSE explained
                /\ canon' = canon
                /\ callers' = [callers EXCEPT ![c] =
                      [c1 EXCEPT !.tasks[k].i = @ + 1,
                                 !.tasks[k].pc = IF t.i + 1 = t.n THEN "done" ELSE "loop",
                                 !.tasks[k].chunks = Append(@,
                                     [explanation |-> ExplanationOf(outcome),
                                      validated |-> ValidatedOf(outcome, explained[id]),
                                      cacheHit |-> ~miss,
                                      context |-> contextPrompt(explainRequest(k, t)),
                                      previous |-> Len(explainRequest(k, t).previousSegments)]),
                                 !.tasks[k].previousSegment = id,
                                 !.tasks[k].previousExplanation = ExplanationOf(outcome)]]
  /\ UNCHANGED <<now, upstream, clients, saves>>
  /\ UNCHANGED <<evars, ovars>>

\* The caller's guide record gets status 'Cancelled' while chunks are processed.
Cancel(c) ==
  /\ callers[c].pc = "chunks"
  /\ ~callers[c].flag
  /\ callers' = [callers EXCEPT ![c].flag = TRUE]
  /\ UNCHANGED <<canon, now, explained, upstream, clients, saves>>
  /\ UNCHANGED <<evars, ovars>>

\* Promise.all resolved: a cancelled task ends the run, else the summary is next.
Collect(c) ==
  /\ callers[c].pc = "chunks"
  /\ \A k \in Corpora : ~TaskRunning(callers[c].tasks[k])
  /\ IF \E k \in Corpora : callers[c].tasks[k].pc = "cancelled"
     THEN /\ canon' = IF callers[c].hasCanonicalLock
                       THEN markCanonicalFailed(canon, "cancelled", now) ELSE canon
          /\ callers' = [callers EXCEPT ![c] = Return(@, "cancelled", NoGuide)]
     ELSE /\ callers' = [callers EXCEPT ![c].pc = "summary"]
          /\ canon' = canon
  /\ UNCHANGED <<now, explained, upstream, clients, saves>>
  /\ UNCHANGED <<evars, ovars>>

\* summarizeTalmudStudyGuide returns a summary and its validation, or throws.
Summarize(c, ok, validated) ==
  /\ callers[c].pc = "summary"
  /\ LET c1 == [callers[c] EXCEPT !.summaries = @ + 1] IN
     IF ok
     THEN /\ callers' = [callers EXCEPT ![c] =
                [c1 EXCEPT !.pc = "save",
                           !.summaryValidated = validated,
                           !.validated = guideValidated(validated, c1.tasks),
                           !.guide = [summary |-> <<"summary", c>>,
                                      chunks |-> SourceResultChunks(c1),
                                      sources |-> RequestSources[c]]]]
          /\ canon' = canon
     ELSE CatchError(c, c1, "summary_failed")
  /\ UNCHANGED <<now, explained, upstream, clients, saves>>
  /\ UNCHANGED <<evars, ovars>>

\* What the store does to the terminal write: the batch commits; or it fails
\* and the cache_write_failed mark is written; or the mark fails as well and
\* its exception reaches the catch block.
SaveOutcomes == {"committed", "write_failed", "mark_failed"}

\* The lock holder saves the guide (cache_write_failed if the batch fails);
\* the caller then returns its in-memory guide, unless the mark threw.
Save(c, outcome) ==
  /\ callers[c].pc = "save"
  /\ outcome = "committed" \/ callers[c].hasCanonicalLock
  /\ IF outcome = "mark_failed"
     THEN CatchError(c, callers[c], "mark_write_failed")
     ELSE /\ canon' = IF ~callers[c].hasCanonicalLock THEN canon
                       ELSE IF outcome = "committed"
                       THEN [saveCanonicalGuide(canon, RequestSources[c],
                                                 callers[c].guide, now)
                               EXCEPT !.validated = callers[c].validated]
                       ELSE markCanonicalFailed(canon, "cache_write_failed", now)
          /\ callers' = [callers EXCEPT ![c] = Return(@, "generated", @.guide)]
  /\ saves' = IF callers[c].hasCanonicalLock /\ outcome = "committed"
              THEN saves + 1 ELSE saves
  /\ UNCHANGED <<now, explained, upstream, clients>>
  /\ UNCHANGED <<evars, ovars>>

\* Time passes while some call is in progress.
Tick ==
  /\ \E c \in Callers : callers[c].pc \notin {"idle", "done"}
  /\ now < TickMs * (MaxTicks + 1)
  /\ now' = now + TickMs
  /\ UNCHANGED <<canon, callers, explained, upstream, clients, saves>>
  /\ UNCHANGED <<evars, ovars>>

\* A single lock transaction on a stored record.
LockTransaction ==
  /\ lockCall.state = None
  /\ LET r == tryAcquireCanonicalLock(lockCall.before, lockCall.at) IN
     lockCall' = [lockCall EXCEPT !.state = r.state, !.after = r.record]
  /\ UNCHANGED <<evars, gvars, al, ck, sim, gw, job, fs>>

LockIdle == [before |-> CanonAbsent, at |-> TickMs, state |-> None, after |-> CanonAbsent]

InitStores ==
  /\ llm = LlmIdle
  /\ flow = FlowIdle
  /\ calls = <<>>

InitGuide ==
  /\ canon = CanonAbsent
  /\ now = TickMs
  /\ callers = [c \in Callers |-> CallerIdle]
  /\ explained = [id \in ChunkIds |-> None]
  /\ saves = 0

(***************************************************************************)
(* Part IV. Siman alignment: getOrBuildSimanAlignment                       *)
(***************************************************************************)

MAX_WAIT_FOR_READY_MS == 180000
SOURCE_HASH_RECHECK_MS == 43200000
\* Lifetime of a building lock: lockExpiresAt = now + 5 min.
ALIGNMENT_LOCK_TTL_MS == 300000
CURRENT_CACHE_VERSION == "cache-version-current"
OldCacheVersion == "cache-version-old"

\* toMillis of a missing timestamp.
NoTimestamp == 0

\* The callers of one (section, siman): a and c run in one server process and
\* share its inFlightBuilds map, b runs in another process.
AlignCallers == {"a", "b", "c"}
Processes == {"p1", "p2"}
ProcessOf == [c \in AlignCallers |-> IF c = "b" THEN "p2" ELSE "p1"]

\* The clock advances in steps of the wait budget; two steps outlive a lock.
AlignTickMs == MAX_WAIT_FOR_READY_MS
MaxAlignTicks == 3
AlignEpochMs == SOURCE_HASH_RECHECK_MS + SOURCE_HASH_RECHECK_MS

\* buildSourceHash of the payload upstream serves now, and of an earlier text.
UpstreamHash == "hash-new"
EarlierHash == "hash-old"
SourceHashes == {EarlierHash, UpstreamHash}

\* The seifMap computed from a payload, named by the payload's hash.
seifMapOf(hash) == <<"seifMap", hash>>

AlignmentRecord(status, version, hash, lockExpiresAt, updatedAt, sourceCheckedAt, error) ==
  [status |-> status, version |-> version, sourceHash |-> hash,
   seifMap |-> IF status = "ready" THEN seifMapOf(hash) ELSE NoValue,
   lockExpiresAt |-> lockExpiresAt, updatedAt |-> updatedAt,
   sourceCheckedAt |-> sourceCheckedAt, error |-> error]

\* loadSimanAlignment of a document that does not exist.
AlignAbsent ==
  AlignmentRecord("absent", None, None, NoTimestamp, NoTimestamp, NoTimestamp, None)

loadSimanAlignment(rec) == rec

hasActiveLock(alignment, t) ==
  /\ alignment.status = "building"
  /\ alignment.lockExpiresAt # NoTimestamp
  /\ alignment.lockExpiresAt > t

\* A revalidation that never trusts the time of the last check.
shouldRecheck_Always(alignment, t) == TRUE

\* The first half of revalidateSourceHashIfNeeded: is the last check 12 h old?
shouldRecheck(alignment, t) ==
  LET lastCheckedAtMs == IF alignment.sourceCheckedAt # NoTimestamp
                         THEN alignment.sourceCheckedAt
                         ELSE alignment.updatedAt
  IN lastCheckedAtMs = NoTimestamp \/ t - lastCheckedAtMs >= SOURCE_HASH_RECHECK_MS

\* The conditional lock transaction: it succeeds on a record that is absent,
\* or not building, or building with an expired lock.
tryAcquireSimanLock(rec, t, forceRebuild) ==
  LET free == \/ rec.status = "absent"
              \/ rec.status # "building"
              \/ rec.lockExpiresAt <= t
  IN [acquired |-> free,
      record |-> IF free
                 THEN [rec EXCEPT !.status = "building",
                                  !.lockExpiresAt = t + ALIGNMENT_LOCK_TTL_MS]
                 ELSE rec]

\* The atomic ready write: hash and map, lock cleared, timestamps set.
markAlignmentReady(rec, hash, t) ==
  AlignmentRecord("ready", CURRENT_CACHE_VERSION, hash, NoTimestamp, t, t, None)

markAlignmentFailed(rec, message, t) ==
  [rec EXCEPT !.status = "failed", !.error = message,
              !.lockExpiresAt = NoTimestamp, !.updatedAt = t]

touchAlignmentSourceChecked(rec, t) == [rec EXCEPT !.sourceCheckedAt = t]

\* The object buildSimanAlignmentJob returns: it is written out field by field
\* and has no lock, no updatedAt and no sourceCheckedAt.
BuiltAlignment(hash) ==
  AlignmentRecord("ready", CURRENT_CACHE_VERSION, hash,
                  NoTimestamp, NoTimestamp, NoTimestamp, None)

AlignCallerIdle ==
  [pc |-> "idle", existing |-> AlignAbsent, forceRebuild |-> FALSE,
   waitStart |-> NoTimestamp, joined |-> None, outcome |-> None,
   value |-> AlignAbsent, waited |-> 0, refused |-> FALSE,
   revalidation |-> None, fetches |-> 0]

AlignIdle ==
  [rec |-> AlignAbsent, now |-> AlignEpochMs,
   callers |-> [c \in AlignCallers |-> AlignCallerIdle],
   inFlight |-> [p \in Processes |-> None],
   readyWrites |-> 0, overlapping |-> TRUE]

NoAlignmentCalls == al = AlignIdle

\* The promise of caller c settles: c and the callers that joined it in
\* inFlightBuilds get the same outcome, and c's finally removes the entry.
Settle(cs, c, outcome, value) ==
  [x \in AlignCallers |->
     IF x = c \/ (cs[x].pc = "joined" /\ cs[x].joined = c)
     THEN [cs[x] EXCEPT !.pc = "done", !.outcome = outcome, !.value = value]
     ELSE cs[x]]

\* A finally that leaves the entry of the settled promise in the map.
Release_Never(c) == al.inFlight

Release(c) == [al.inFlight EXCEPT ![ProcessOf[c]] = None]

AlignUnchanged == UNCHANGED <<evars, gvars, lockCall, ck, sim, gw, job, fs>>

\* getOrBuildSimanAlignment up to its first await: join the pending promise of
\* the process, or start _getOrBuildSimanAlignment and register it.
AlignStart(c) ==
  /\ al.callers[c].pc = "idle"
  /\ LET owner == al.inFlight[ProcessOf[c]]
         late == \E x \in AlignCallers : al.callers[x].pc = "done"
     IN al' = [al EXCEPT
          !.callers[c] = IF owner # None
                         THEN [@ EXCEPT !.pc = "joined", !.joined = owner]
                         ELSE [@ EXCEPT !.pc = "load"],
          !.inFlight[ProcessOf[c]] = IF owner # None THEN owner ELSE c,
          !.overlapping = al.overlapping /\ ~late]
  /\ AlignUnchanged

\* loadSimanAlignment answers; a ready record of the current version that was
\* checked less than 12 h ago is returned as loaded.  revalidation names the
\* return of revalidateSourceHashIfNeeded the caller took, fetches counts its
\* calls of fetchSimanSourcePayload.
AlignLoad(c) ==
  /\ al.callers[c].pc = "load"
  /\ LET existing == loadSimanAlignment(al.rec)
         current == existing.status = "ready" /\ existing.version = CURRENT_CACHE_VERSION
         loaded == [al.callers EXCEPT ![c].existing = existing,
                                      ![c].revalidation = "fresh"]
     IN IF current /\ ~shouldRecheck(existing, al.now)
        THEN al' = [al EXCEPT !.callers = Settle(loaded, c, "returned", existing),
                              !.inFlight = Release(c)]
        ELSE al' = [al EXCEPT !.callers[c] =
               [@ EXCEPT !.existing = existing,
                         !.waitStart = al.now,
                         !.pc = IF current THEN "revalidate"
                                ELSE IF hasActiveLock(existing, al.now) THEN "wait1"
                                ELSE "lock"]]
  /\ AlignUnchanged

\* The second half of revalidateSourceHashIfNeeded: the payload is fetched and
\* hashed; a failed fetch is swallowed and the record counts as fresh.
AlignRevalidate(c, fetched) ==
  /\ al.callers[c].pc = "revalidate"
  /\ LET existing == al.callers[c].existing
         unchanged == existing.sourceHash = UpstreamHash
         after(revalidation) ==
           [al.callers EXCEPT ![c].revalidation = revalidation, ![c].fetches = @ + 1]
     IN IF ~fetched
        THEN al' = [al EXCEPT !.callers = Settle(after("failed"), c, "returned", existing),
                              !.inFlight = Release(c)]
        ELSE IF unchanged
        THEN al' = [al EXCEPT !.rec = touchAlignmentSourceChecked(al.rec, al.now),
                              !.callers = Settle(after("unchanged"), c, "returned", existing),
                              !.inFlight = Release(c)]
        ELSE al' = [al EXCEPT !.callers = [after("stale") EXCEPT
                                ![c].forceRebuild = TRUE, ![c].pc = "lock"]]
  /\ AlignUnchanged

\* waitForAlignmentReady: a poll that finds the record ready returns it; the
\* poll after MAX_WAIT_FOR_READY_MS gives up.  waited adds up the time the
\* caller spent in its waits.
AlignWait(c) ==
  /\ al.callers[c].pc \in {"wait1", "wait2"}
  /\ LET elapsed == al.now - al.callers[c].waitStart
         timedOut == elapsed >= MAX_WAIT_FOR_READY_MS
         after == [al.callers EXCEPT ![c].waited =
                     @ + IF timedOut THEN MAX_WAIT_FOR_READY_MS ELSE elapsed]
     IN
     /\ al.rec.status = "ready" \/ timedOut
     /\ IF al.rec.status = "ready"
        THEN al' = [al EXCEPT !.callers = Settle(after, c, "returned", al.rec),
                              !.inFlight = Release(c)]
        ELSE al' = [al EXCEPT !.callers = [after EXCEPT ![c].pc =
                      IF al.callers[c].pc = "wait1" THEN "lock" ELSE "latest"]]
  /\ AlignUnchanged

\* After a fruitless second wait: one more load, then the timeout error.
AlignLoadLatest(c) ==
  /\ al.callers[c].pc = "latest"
  /\ LET latest == loadSimanAlignment(al.rec) IN
     al' = [al EXCEPT
       !.callers = IF latest.status = "ready"
                   THEN Settle(al.callers, c, "returned", latest)
                   ELSE Settle(al.callers, c, "threw", AlignAbsent),
       !.inFlight = Release(c)]
  /\ AlignUnchanged

AlignTryLock(c) ==
  /\ al.callers[c].pc = "lock"
  /\ LET r == tryAcquireSimanLock(al.rec, al.now, al.callers[c].forceRebuild) IN
     al' = [al EXCEPT !.rec = r.record,
                      !.callers[c] = [@ EXCEPT !.pc = IF r.acquired THEN "build" ELSE "wait2",
                                               !.refused = ~r.acquired,
                                               !.waitStart = al.now]]
  /\ AlignUnchanged

\* buildSimanAlignmentJob ends: markAlignmentReady and the literal it returns,
\* or an exception, markAlignmentFailed and the rethrow.  The payload is the
\* preloaded one of a forced rebuild, or else fetched here.
AlignBuild(c, built) ==
  /\ al.callers[c].pc = "build"
  /\ LET after == [al.callers EXCEPT ![c].fetches =
                     IF al.callers[c].forceRebuild THEN @ ELSE @ + 1]
     IN IF built
     THEN al' = [al EXCEPT
            !.rec = markAlignmentReady(al.rec, UpstreamHash, al.now),
            !.readyWrites = IF al.rec.status = "building" THEN @ + 1 ELSE @,
            !.callers = Settle(after, c, "returned", BuiltAlignment(UpstreamHash)),
            !.inFlight = Release(c)]
     ELSE al' = [al EXCEPT
            !.rec = markAlignmentFailed(al.rec, "alignment_build_failed", al.now),
            !.callers = Settle(after, c, "threw", AlignAbsent),
            !.inFlight = Release(c)]
  /\ AlignUnchanged

AlignTick ==
  /\ \E c \in AlignCallers : al.callers[c].pc \notin {"idle", "done"}
  /\ al.now < AlignEpochMs + AlignTickMs * MaxAlignTicks
  /\ al' = [al EXCEPT !.now = @ + AlignTickMs]
  /\ AlignUnchanged

(***************************************************************************)
(* Part V. Chunkers                                                         *)
(***************************************************************************)

MIN_WORDS_PER_CHUNK == 120
MAX_WORDS_PER_CHUNK == 180
ALIGNMENT_MAX_WORDS == 50
ALIGNMENT_MIN_WORDS == 25
\* The slack of the clause chunker: a group may grow to maxWords + 50.
OversizeSlack == 50

\* A text is a sequence of whitespace-separated words; a word is its letters
\* and the punctuation mark it ends with ("" for none).
Word(letters, mark) == <<letters, mark>>
SentenceMarks == {".", ":", "?", "!", "sof-pasuq"}
ClauseMarks == {".", ":", "newline"}
NoPath == <<>>

isSentenceBoundary(word) == word[2] \in SentenceMarks

\* The least element of a non-empty set of positions.
First(positions) == CHOOSE p \in positions : \A q \in positions : p <= q

\* The loop of splitByWordBudget with the running chunk starting at word
\* start: the chunk is pushed at the first word where it has minWords words
\* and the word is a sentence boundary or the chunk has maxWords words; words
\* left at the end of the text are pushed as the last part.
RECURSIVE SplitLoop(_, _, _, _, _)
SplitLoop(words, start, parts, minWords, maxWords) ==
  IF start > Len(words) THEN parts
  ELSE LET cuts == {p \in start..Len(words) :
                      /\ p - start + 1 >= minWords
                      /\ (isSentenceBoundary(words[p]) \/ p - start + 1 >= maxWords)}
       IN IF cuts = {}
          THEN Append(parts, SubSeq(words, start, Len(words)))
          ELSE SplitLoop(words, First(cuts) + 1,
                         Append(parts, SubSeq(words, start, First(cuts))),
                         minWords, maxWords)

RECURSIVE SplitLoop_AnyBoundary(_, _, _, _, _)
SplitLoop_AnyBoundary(words, start, parts, minWords, maxWords) ==
  IF start > Len(words) THEN parts
  ELSE LET cuts == {p \in start..Len(words) :
                      isSentenceBoundary(words[p]) \/ p - start + 1 >= maxWords}
       IN IF cuts = {}
          THEN Append(parts, SubSeq(words, start, Len(words)))
          ELSE SplitLoop_AnyBoundary(words, First(cuts) + 1,
                         Append(parts, SubSeq(words, start, First(cuts))),
                         minWords, maxWords)

splitByWordBudget_AnyBoundary(words, minWords, maxWords) ==
  IF Len(words) <= maxWords THEN <<words>>
  ELSE SplitLoop_AnyBoundary(words, 1, <<>>, minWords, maxWords)

\* splitByWordBudget: a text of at most maxWords words is one part.
splitByWordBudget(words, minWords, maxWords) ==
  IF Len(words) <= maxWords THEN <<words>>
  ELSE SplitLoop(words, 1, <<>>, minWords, maxWords)

\* generateHash: a function of the text alone.
generateHash(text) == <<"cyrb53", text>>

\* normalizeRefKey: lower case, runs of other characters become "_".
RefKeys ==
  [r \in {"Shabbat 2a", "Tur, Orach Chayim 24"} |->
     IF r = "Shabbat 2a" THEN "shabbat_2a" ELSE "tur_orach_chayim_24"]
normalizeRefKey(ref) == RefKeys[ref]

buildChunkId(source, ref, path, index) ==
  <<source, normalizeRefKey(ref), IF Len(path) > 0 THEN path ELSE <<"root">>,
    "chunk", index + 1>>

TextChunk_NoPath(source, segment, part, index) ==
  [id |-> buildChunkId(source, segment.ref, segment.path, index),
   text |-> part, rawHash |-> generateHash(part),
   ref |-> segment.ref, path |-> NoPath]

\* The chunk pushed for one part of a segment.
TextChunk(source, segment, part, index) ==
  [id |-> buildChunkId(source, segment.ref, segment.path, index),
   text |-> part, rawHash |-> generateHash(part),
   ref |-> segment.ref, path |-> segment.path]

RECURSIVE PushParts(_, _, _, _, _)
PushParts(chunks, source, segment, parts, j) ==
  IF j > Len(parts) THEN chunks
  ELSE PushParts(Append(chunks, TextChunk(source, segment, parts[j], Len(chunks))),
                 source, segment, parts, j + 1)

RECURSIVE ChunkSegments(_, _, _, _)
ChunkSegments(segments, source, i, chunks) ==
  IF i > Len(segments) THEN chunks
  ELSE LET cleanText == segments[i].text IN
       IF Len(cleanText) = 0
       THEN ChunkSegments(segments, source, i + 1, chunks)
       ELSE ChunkSegments(segments, source, i + 1,
              PushParts(chunks, source, segments[i],
                        splitByWordBudget(cleanText, MIN_WORDS_PER_CHUNK,
                                          MAX_WORDS_PER_CHUNK), 1))

\* chunkStructuredText of the explanation chunker.
chunkStructuredText(segments, source) == ChunkSegments(segments, source, 1, <<>>)

\* chunkText: one segment under the reference of the whole text, without path.
chunkText(fullText, tref, source) ==
  chunkStructuredText(<<[ref |-> tref, path |-> NoPath, text |-> fullText]>>, source)

\* countWords: the tokens that contain a letter or a digit.
countWords(text) == Len(SelectSeq(text, LAMBDA w : w[1] # ""))

\* text.match(/[^.:\n]+[.:\n]+/g): the clauses, each ending with its mark;
\* words after the last mark belong to no clause.
RECURSIVE ClauseLoop(_, _, _)
ClauseLoop(text, start, clauses) ==
  LET ends == {p \in start..Len(text) : text[p][2] \in ClauseMarks} IN
  IF ends = {} THEN clauses
  ELSE ClauseLoop(text, First(ends) + 1,
                  Append(clauses, SubSeq(text, start, First(ends))))

matchClauses(text) ==
  LET m == ClauseLoop(text, 1, <<>>) IN IF Len(m) = 0 THEN <<text>> ELSE m

\* The fallback for a text of at most one clause: a sub-chunk is pushed every
\* maxWords tokens, the rest is the last one.
RECURSIVE WordSplit(_, _, _, _)
WordSplit(words, start, subChunks, maxWords) ==
  IF start > Len(words) THEN subChunks
  ELSE IF start + maxWords - 1 <= Len(words)
       THEN WordSplit(words, start + maxWords,
                      Append(subChunks, SubSeq(words, start, start + maxWords - 1)),
                      maxWords)
       ELSE Append(subChunks, SubSeq(words, start, Len(words)))

RECURSIVE GroupLoop_NoSlack(_, _, _, _, _, _)
GroupLoop_NoSlack(clauses, i, currentGroup, result, maxWords, minWords) ==
  IF i > Len(clauses)
  THEN IF Len(currentGroup) > 0 THEN Append(result, currentGroup) ELSE result
  ELSE LET clause == clauses[i]
           nextWords == countWords(clause)
           currWords == countWords(currentGroup)
       IN IF currWords + nextWords > maxWords /\ currWords >= minWords
          THEN GroupLoop_NoSlack(clauses, i + 1, clause, Append(result, currentGroup),
                                 maxWords, minWords)
          ELSE IF currWords + nextWords > maxWords
          THEN GroupLoop_NoSlack(clauses, i + 1, <<>>,
                         Append(IF Len(currentGroup) > 0
                                THEN Append(result, currentGroup) ELSE result, clause),
                         maxWords, minWords)
          ELSE GroupLoop_NoSlack(clauses, i + 1, currentGroup \o clause, result,
                                 maxWords, minWords)

\* The grouping loop of splitTextIntoSubChunks from clause i on.
RECURSIVE GroupLoop(_, _, _, _, _, _)
GroupLoop(clauses, i, currentGroup, result, maxWords, minWords) ==
  IF i > Len(clauses)
  THEN IF Len(currentGroup) > 0 THEN Append(result, currentGroup) ELSE result
  ELSE LET clause == clauses[i]
           nextWords == countWords(clause)
           currWords == countWords(currentGroup)
       IN IF currWords + nextWords > maxWords /\ currWords >= minWords
          THEN GroupLoop(clauses, i + 1, clause, Append(result, currentGroup),
                         maxWords, minWords)
          ELSE IF currWords + nextWords > maxWords + OversizeSlack
          THEN GroupLoop(clauses, i + 1, <<>>,
                         Append(IF Len(currentGroup) > 0
                                THEN Append(result, currentGroup) ELSE result, clause),
                         maxWords, minWords)
          ELSE GroupLoop(clauses, i + 1, currentGroup \o clause, result,
                         maxWords, minWords)

splitTextIntoSubChunks_NoSlack(text, maxWords, minWords) ==
  LET clauses == matchClauses(text) IN
  IF Len(clauses) <= 1 THEN WordSplit(text, 1, <<>>, maxWords)
  ELSE GroupLoop_NoSlack(clauses, 1, <<>>, <<>>, maxWords, minWords)

splitTextIntoSubChunks(text, maxWords, minWords) ==
  LET clauses == matchClauses(text) IN
  IF Len(clauses) <= 1 THEN WordSplit(text, 1, <<>>, maxWords)
  ELSE GroupLoop(clauses, 1, <<>>, <<>>, maxWords, minWords)

\* The sub-chunks of one fragment inherit its ref and a copy of its path.
RECURSIVE PushSubTexts(_, _, _, _)
PushSubTexts(result, chunk, subTexts, j) ==
  IF j > Len(subTexts) THEN result
  ELSE PushSubTexts(
         IF Len(subTexts[j]) = 0 THEN result
         ELSE Append(result, [ref |-> chunk.ref, path |-> chunk.path,
                              text |-> subTexts[j]]),
         chunk, subTexts, j + 1)

RECURSIVE LimitLoop(_, _, _, _, _)
LimitLoop(chunks, i, result, maxWords, minWords) ==
  IF i > Len(chunks) THEN result
  ELSE IF countWords(chunks[i].text) <= maxWords
       THEN LimitLoop(chunks, i + 1, Append(result, chunks[i]), maxWords, minWords)
       ELSE LimitLoop(chunks, i + 1,
              PushSubTexts(result, chunks[i],
                           splitTextIntoSubChunks(chunks[i].text, maxWords, minWords), 1),
              maxWords, minWords)

chunkWithLimits(chunks, maxWords, minWords) == LimitLoop(chunks, 1, <<>>, maxWords, minWords)

\* The limits chunkForAlignment picks for at most 5 raw segments, and the
\* limits of the clause-based chunkStructuredText.
Profiles ==
  {[min |-> ALIGNMENT_MIN_WORDS, max |-> ALIGNMENT_MAX_WORDS],
   [min |-> MIN_WORDS_PER_CHUNK, max |-> MAX_WORDS_PER_CHUNK]}

CkIdle ==
  [kind |-> None, source |-> None, profile |-> [min |-> 0, max |-> 0],
   fragments |-> <<>>, chunks |-> <<>>, done |-> FALSE]

NoChunkerRuns == ck = CkIdle

ChunkUnchanged == UNCHANGED <<evars, gvars, lockCall, al, sim, gw, job, fs>>

\* One run of the explanation chunker: chunkText for a plain text, else
\* chunkStructuredText over the fragments of a corpus.
ChunkStructuredText ==
  /\ ck.kind = "explanation"
  /\ ~ck.done
  /\ ck' = [ck EXCEPT
       !.chunks = IF Len(ck.fragments) = 1 /\ ck.fragments[1].path = NoPath
                  THEN chunkText(ck.fragments[1].text, ck.fragments[1].ref, ck.source)
                  ELSE chunkStructuredText(ck.fragments, ck.source),
       !.done = TRUE]
  /\ ChunkUnchanged

\* One run of the clause-based chunker with the limits of a profile.
ChunkWithLimits ==
  /\ ck.kind = "clause"
  /\ ~ck.done
  /\ ck' = [ck EXCEPT !.chunks = chunkWithLimits(ck.fragments, ck.profile.max,
                                                 ck.profile.min),
                      !.done = TRUE]
  /\ ChunkUnchanged

(***************************************************************************)
(* Part VI. Similarity index: selectBestRefsBySimilarity                    *)
(***************************************************************************)

\* A normalized text is its sequence of whitespace-separated tokens; a token
\* is known by its spelling, and its length is the length of the spelling.
LongWords ==
  {"w01", "w02", "w03", "w04", "w05", "w06", "w07", "w08", "w09", "w10",
   "w11", "w12", "w13", "w14", "w15"}
Vocabulary == {"av", "gd", "kl", "h"} \cup LongWords
TokenLength == [t \in Vocabulary |-> IF t = "h" THEN 1 ELSE 2]

\* .filter(token => token.length >= 2)
tokenizeForSimilarity(text) == SelectSeq(text, LAMBDA t : TokenLength[t] >= 2)

SetOf(tokens) == {tokens[i] : i \in 1..Len(tokens)}

\* The adjacent pairs of the token array.
buildBigramSet(tokens) == {<<tokens[i], tokens[i + 1]>> : i \in 1..(Len(tokens) - 1)}

\* One prepared candidate of the index; index is the segment's position.
PreparedSimilarityChunk(segment, index) ==
  [ref |-> segment.ref, index |-> index,
   tokens |-> SetOf(tokenizeForSimilarity(segment.text)),
   bigrams |-> buildBigramSet(tokenizeForSimilarity(segment.text))]

\* buildSimilarityIndex(segments): the segments with at least one token.
buildSimilarityIndex(segments) ==
  SelectSeq([i \in 1..Len(segments) |-> PreparedSimilarityChunk(segments[i], i - 1)],
            LAMBDA item : item.tokens # {})

\* A score is an exact fraction <<numerator, denominator>>; the floating
\* point operations of the code are monotone, so they keep the order.
AtLeast(x, y) == x[1] * y[2] >= y[1] * x[2]
Above(x, y) == x[1] * y[2] > y[1] * x[2]

overlapRatio_OverCandidate(querySet, candidateSet) ==
  IF Cardinality(querySet) = 0 \/ Cardinality(candidateSet) = 0 THEN <<0, 1>>
  ELSE <<Cardinality(querySet \cap candidateSet), Cardinality(candidateSet)>>

\* overlap / querySet.size, and 0 when either set is empty.
overlapRatio(querySet, candidateSet) ==
  IF Cardinality(querySet) = 0 \/ Cardinality(candidateSet) = 0 THEN <<0, 1>>
  ELSE <<Cardinality(querySet \cap candidateSet), Cardinality(querySet)>>

\* (tokenScore * 0.7) + (bigramScore * 0.3)
weightedScore(tokenScore, bigramScore) ==
  <<7 * tokenScore[1] * bigramScore[2] + 3 * bigramScore[1] * tokenScore[2],
    10 * tokenScore[2] * bigramScore[2]>>

\* The scored entry of one candidate against the query.
scoreCandidate(queryTokens, candidate) ==
  [ref |-> candidate.ref, index |-> candidate.index,
   score |-> weightedScore(overlapRatio(SetOf(queryTokens), candidate.tokens),
                           overlapRatio(buildBigramSet(queryTokens), candidate.bigrams))]

\* A threshold that does not follow the best score.
minimumScore_Floor(bestScore) == <<2, 25>>

\* Math.max(0.08, bestScore * 0.6)
minimumScore(bestScore) ==
  LET scaled == <<3 * bestScore[1], 5 * bestScore[2]>>
  IN IF AtLeast(<<2, 25>>, scaled) THEN <<2, 25>> ELSE scaled

\* ref.trim(): the refs that come with a blank around them, and the rest,
\* which are left as they are.
PaddedRefs == [r \in {"Tur 1 "} |-> "Tur 1"]
trimRef(ref) == IF ref \in DOMAIN PaddedRefs THEN PaddedRefs[ref] ELSE ref

RECURSIVE dedupeRefs(_, _)
\* dedupeRefs(refs): the trimmed refs that are not empty, first occurrences,
\* in order.
dedupeRefs(refs, seen) ==
  IF refs = <<>> THEN <<>>
  ELSE LET clean == trimRef(Head(refs)) IN
       IF clean = "" \/ clean \in seen THEN dedupeRefs(Tail(refs), seen)
       ELSE <<clean>> \o dedupeRefs(Tail(refs), seen \cup {clean})

\* selectBestRefsBySimilarity(queryText, candidates): { refs, bestScore } and,
\* for inspection, the scored candidates.
selectBestRefsBySimilarity(queryText, candidates) ==
  LET queryTokens == tokenizeForSimilarity(queryText)
      none == [refs |-> <<>>, bestScore |-> <<0, 1>>, scored |-> <<>>]
  IN IF queryText = <<>> \/ candidates = <<>> \/ queryTokens = <<>> THEN none
     ELSE
       LET scored == [i \in 1..Len(candidates) |-> scoreCandidate(queryTokens, candidates[i])]
           ranked == SortSeq(scored, LAMBDA a, b :
                        Above(a.score, b.score)
                        \/ (a.score[1] * b.score[2] = b.score[1] * a.score[2] /\ a.index < b.index))
           bestScore == ranked[1].score
           kept == SelectSeq(ranked, LAMBDA item : AtLeast(item.score, minimumScore(bestScore)))
           selected == SortSeq(SubSeq(kept, 1, IF Len(kept) < 12 THEN Len(kept) ELSE 12),
                               LAMBDA a, b : a.index < b.index)
       IN IF Above(<<1, 20>>, bestScore)
          THEN [refs |-> <<>>, bestScore |-> bestScore, scored |-> scored]
          ELSE [refs |-> dedupeRefs([i \in 1..Len(selected) |-> selected[i].ref], {}),
                bestScore |-> bestScore, scored |-> scored]

SimIdle ==
  [query |-> <<>>, segments |-> <<>>, index |-> <<>>, built |-> FALSE, done |-> FALSE,
   selection |-> [refs |-> <<>>, bestScore |-> <<0, 1>>, scored |-> <<>>]]

NoSimilarityRuns == sim = SimIdle

SimUnchanged == UNCHANGED <<evars, gvars, lockCall, al, ck, gw, job, fs>>

\* The index of one secondary corpus is built from its segments.
BuildSimilarityIndex ==
  /\ ~sim.built
  /\ sim' = [sim EXCEPT !.index = buildSimilarityIndex(sim.segments), !.built = TRUE]
  /\ SimUnchanged

\* One paragraph of the primary work is matched against the index.
SelectBestRefs ==
  /\ sim.built /\ ~sim.done
  /\ sim' = [sim EXCEPT !.selection = selectBestRefsBySimilarity(sim.query, sim.index),
                        !.done = TRUE]
  /\ SimUnchanged

(***************************************************************************)
(* Part VII. One attempt of the cascade: generateWithTimeout                *)
(***************************************************************************)

\* The error of the timeout promise: `LLM timeout after ${timeoutMs}ms`.
TimeoutError == {"timeout"}

\* A generation the race left behind: whether the completion handler of
\* line 112 was attached to it and the timedOut flag its closure holds.
Generation(watched, timedOut) == [watched |-> watched, timedOut |-> timedOut]

GwIdle ==
  [pc |-> "idle", preferred |-> None, model |-> None, timedOut |-> FALSE,
   watched |-> FALSE, timer |-> "none", error |-> NoError, tried |-> <<>>,
   slept |-> <<>>, abandoned |-> <<>>, late |-> 0, leakLog |-> 0]

NoTimeoutRaces == gw = GwIdle

\* The handler of line 112 runs when its generation has resolved: it warns
\* when the flag of its closure is set.
LeakWarnings(generation) ==
  IF generation.watched /\ generation.timedOut THEN 1 ELSE 0

RaceUnchanged == UNCHANGED <<flow, rabanout, legacy, calls, gvars, lockCall, al, ck, sim, job, fs>>

\* generateWithTimeout(prompt, model, timeoutMs) is entered: the generation
\* is requested, the timer is set and both are raced.
RaceStart ==
  /\ llm.pc = "attempt"
  /\ gw.pc # "racing"
  /\ gw' = [gw EXCEPT !.pc = "racing", !.model = llm.cands[llm.idx],
                      !.timedOut = FALSE, !.watched = FALSE, !.timer = "set",
                      !.tried = Append(@, llm.cands[llm.idx])]
  /\ llm' = llm
  /\ RaceUnchanged

\* The generation resolves first: the race resolves, the handler is attached
\* and runs at once (timedOut is still false), the trimmed text is returned.
RaceResolved(text) ==
  /\ gw.pc = "racing"
  /\ gw' = [gw EXCEPT !.pc = "returned", !.watched = TRUE,
                      !.leakLog = @ + LeakWarnings(Generation(TRUE, gw.timedOut))]
  /\ llm' = LlmSucceed(llm, text)
  /\ RaceUnchanged

\* The generation rejects first: the await throws the provider's error and
\* the lines after it are not reached.
RaceRejected(e) ==
  /\ gw.pc = "racing"
  /\ gw' = [gw EXCEPT !.pc = "thrown", !.error = e,
                      !.slept = IF LlmFail(llm, e).pc = "sleep"
                                THEN Append(@, LlmFail(llm, e).sleepMs) ELSE @]
  /\ llm' = LlmFail(llm, e)
  /\ RaceUnchanged

\* The timer fires first: timedOut is set, the await throws the timeout error
\* and the lines after it are not reached; the generation stays pending.
RaceTimedOut ==
  /\ gw.pc = "racing"
  /\ gw' = [gw EXCEPT !.pc = "thrown", !.timedOut = TRUE, !.timer = "fired",
                      !.error = TimeoutError,
                      !.abandoned = Append(@, Generation(gw.watched, TRUE)),
                      !.slept = IF LlmFail(llm, TimeoutError).pc = "sleep"
                                THEN Append(@, LlmFail(llm, TimeoutError).sleepMs) ELSE @]
  /\ llm' = LlmFail(llm, TimeoutError)
  /\ RaceUnchanged

\* The timer of a race that is over fires (it is never cleared): it sets the
\* flag of its closure and rejects a promise the settled race ignores.
LateTimer ==
  /\ gw.pc \in {"returned", "thrown"}
  /\ gw.timer = "set"
  /\ gw' = [gw EXCEPT !.timedOut = TRUE, !.timer = "fired"]
  /\ llm' = llm
  /\ RaceUnchanged

\* A generation left behind by a timed-out race completes: its handlers run.
LateCompletion ==
  /\ gw.abandoned # <<>>
  /\ gw' = [gw EXCEPT !.abandoned = Tail(@), !.late = @ + 1,
                      !.leakLog = @ + LeakWarnings(Head(gw.abandoned))]
  /\ llm' = llm
  /\ RaceUnchanged

\* await sleep(backoffMs) between two attempts on one candidate is over.
RaceBackoff ==
  /\ llm.pc = "sleep"
  /\ llm' = LlmWake(llm)
  /\ gw' = gw
  /\ RaceUnchanged

(***************************************************************************)
(* Part VIII. One paragraph of buildSimanAlignmentJob                       *)
(***************************************************************************)

\* Number(x.toFixed(3)): the multiple of 1/1000 nearest to x.
toFixed3(x) == <<(2000 * x[1] + x[2]) \div (2 * x[2]), 1000>>

\* (turScore + byScore) / 2
meanScore(x, y) == <<x[1] * y[2] + y[1] * x[2], 2 * x[2] * y[2]>>

\* What getLinkedSourcesForShulchanArukhSeif gave: the refs of each secondary
\* corpus, or nothing because it threw.
NoLinks == [failed |-> FALSE, turRefs |-> <<>>, beitYosefRefs |-> <<>>]
LinksFailed == [NoLinks EXCEPT !.failed = TRUE]

\* The mapping of one secondary corpus when no ref was linked is never
\* looked up by similarity.
SecondaryMapping_LinkedOnly(linkedRefs, text, index) ==
  [refs |-> linkedRefs,
   mode |-> IF Len(linkedRefs) > 0 THEN "linked-passages" ELSE "none",
   score |-> IF Len(linkedRefs) > 0 THEN <<1, 1>> ELSE <<0, 1>>]

\* The mapping of one secondary corpus: the linked refs, or the similarity
\* selection of the paragraph text against the corpus index.
SecondaryMapping(linkedRefs, text, index) ==
  IF Len(linkedRefs) > 0
  THEN [refs |-> linkedRefs, mode |-> "linked-passages", score |-> <<1, 1>>]
  ELSE LET fallback == selectBestRefsBySimilarity(text, index)
       IN [refs |-> fallback.refs,
           mode |-> IF Len(fallback.refs) > 0 THEN "fallback-similarity" ELSE "none",
           score |-> fallback.bestScore]

\* seifMap[String(entry.seif)]
SeifRefMapping(tur, by) ==
  [turRefs |-> tur.refs, byRefs |-> by.refs, turMode |-> tur.mode, byMode |-> by.mode,
   confidence |-> toFixed3(meanScore(tur.score, by.score))]

NoMapping == [refs |-> <<>>, mode |-> "none", score |-> <<0, 1>>]

JobIdle ==
  [pc |-> "idle", text |-> <<>>, tur |-> <<>>, beitYosef |-> <<>>,
   turIndex |-> <<>>, byIndex |-> <<>>, linked |-> NoLinks,
   entry |-> SeifRefMapping(NoMapping, NoMapping)]

NoBuildJobs == job = JobIdle

JobUnchanged == UNCHANGED <<evars, gvars, lockCall, al, ck, sim, gw, fs>>

\* The two similarity indexes are built from the payload.
JobIndexes ==
  /\ job.pc = "idle"
  /\ job' = [job EXCEPT !.turIndex = buildSimilarityIndex(job.tur),
                        !.byIndex = buildSimilarityIndex(job.beitYosef),
                        !.pc = "links"]
  /\ JobUnchanged

\* The link lookup of the paragraph answers or throws; the refs it gave are
\* deduplicated, a failure leaves both lists empty.
JobLinks(linked) ==
  /\ job.pc = "links"
  /\ job' = [job EXCEPT
       !.linked = IF linked.failed THEN LinksFailed
                  ELSE [failed |-> FALSE,
                        turRefs |-> dedupeRefs(linked.turRefs, {}),
                        beitYosefRefs |-> dedupeRefs(linked.beitYosefRefs, {})],
       !.pc = "entry"]
  /\ JobUnchanged

\* The entry of the paragraph is written into the seifMap.
JobEntry ==
  /\ job.pc = "entry"
  /\ job' = [job EXCEPT
       !.entry = SeifRefMapping(SecondaryMapping(job.linked.turRefs, job.text, job.turIndex),
                                SecondaryMapping(job.linked.beitYosefRefs, job.text, job.byIndex)),
       !.pc = "done"]
  /\ JobUnchanged

(***************************************************************************)
(* Part IX. The fetch of one corpus: fetchSourceWithStrategy                *)
(***************************************************************************)

\* The corpora fetched through the alignment (resolveFetchMode gives
\* linked-passages for them).
AlignedCorpora == {"tur", "beit_yosef"}

\* alignment.seifMap[seifNum.toString()] of a paragraph the map does not have.
NoSeifEntry ==
  [present |-> FALSE, turRefs |-> <<>>, byRefs |-> <<>>,
   turMode |-> "none", byMode |-> "none"]

\* The payload of a fetch that has not returned.
NoPayload == [fetchMode |-> None, segments |-> 0]

FsIdle ==
  [pc |-> "idle", sourceKey |-> "tur", entry |-> NoSeifEntry,
   mapping |-> NoSeifEntry, sliced |-> FALSE, returnedBy |-> None,
   payload |-> NoPayload, explainCalls |-> 0]

NoSourceFetches == fs = FsIdle

FsUnchanged == UNCHANGED <<evars, gvars, lockCall, al, ck, sim, gw, job>>

\* The refs the second lookup fetches by.
MappingRefs(sourceKey, mapping) ==
  IF sourceKey = "tur" THEN mapping.turRefs ELSE mapping.byRefs

\* The source-compendium entry is kept only when it was linked.
EmptiedByMode_Never(sourceKey, mapping) == FALSE

EmptiedByMode(sourceKey, mapping) ==
  sourceKey = "beit_yosef" /\ mapping.byMode # "linked-passages"

\* The return statement of the step named by fs.pc.
Returned(fetchMode, segments) ==
  [fs EXCEPT !.pc = "fetched", !.returnedBy = fs.pc,
             !.payload = [fetchMode |-> fetchMode, segments |-> segments]]

\* The call is entered: the predecessor-code is first sliced by boundaries.
FsBegin ==
  /\ fs.pc = "idle"
  /\ fs' = [fs EXCEPT !.pc = IF fs.sourceKey = "tur" THEN "slice" ELSE "lookup"]
  /\ FsUnchanged

\* The try block of the predecessor-code: the alignment is read for boundary
\* indices and getTurSegmentsForSeif slices the chapter; segments are
\* returned, no segment or an exception falls through to the lookup.
FsSlice(ok, segments) ==
  /\ fs.pc = "slice"
  /\ fs' = IF ok /\ segments > 0
           THEN [Returned("linked-passages", segments) EXCEPT !.sliced = TRUE]
           ELSE [fs EXCEPT !.pc = "lookup", !.sliced = TRUE]
  /\ FsUnchanged

\* The alignment lookup: the entry of the paragraph gives the refs to fetch;
\* a source-compendium entry that is not linked gives the empty response; a
\* missing entry falls through to the full chapter; an exception of the
\* alignment or of the fetch by refs goes to the direct links.
FsLookup(aligned, ok, segments) ==
  /\ fs.pc = "lookup"
  /\ LET mapping == fs.entry
         refs == MappingRefs(fs.sourceKey, mapping)
     IN fs' =
          IF ~aligned THEN [fs EXCEPT !.pc = "links"]
          ELSE IF ~mapping.present THEN [fs EXCEPT !.pc = "full"]
          ELSE IF EmptiedByMode(fs.sourceKey, mapping)
          THEN [Returned("linked-passages", 0) EXCEPT !.mapping = mapping]
          ELSE IF refs = <<>>
          THEN [Returned("linked-passages", 0) EXCEPT !.mapping = mapping]
          ELSE IF ok
          THEN [Returned("linked-passages", segments) EXCEPT !.mapping = mapping]
          ELSE [fs EXCEPT !.pc = "links", !.mapping = mapping]
  /\ FsUnchanged

\* The direct links of the paragraph, after an exception of the lookup: refs
\* of the corpus are fetched; no ref or an exception falls through.
FsLinks(linked, ok, segments) ==
  /\ fs.pc = "links"
  /\ LET refs == MappingRefs(fs.sourceKey,
                   [NoSeifEntry EXCEPT !.turRefs = linked.turRefs,
                                       !.byRefs = linked.beitYosefRefs])
     IN fs' = IF ~linked.failed /\ refs # <<>> /\ ok
              THEN Returned("linked-passages", segments)
              ELSE [fs EXCEPT !.pc = "full"]
  /\ FsUnchanged

\* The fallback for everything else: the whole chapter, or the rejection.
FsFullSiman(ok, segments) ==
  /\ fs.pc = "full"
  /\ fs' = IF ok THEN Returned("full-siman", segments)
           ELSE [fs EXCEPT !.pc = "rejected"]
  /\ FsUnchanged

\* The orchestrator takes the payload: a corpus without segments is skipped,
\* the chunks of the others are explained one call each (every segment here
\* fits one chunk).
FsExplain ==
  /\ fs.pc = "fetched"
  /\ fs' = [fs EXCEPT !.pc = "done", !.explainCalls = fs.payload.segments]
  /\ FsUnchanged

(***************************************************************************)
(* Specifications                                                           *)
(***************************************************************************)

\* Records an earlier call, or an earlier deployment, may have left behind.
InitialRabanoutRecords ==
  {RabanoutRecord(seg, TextHebrew, sha256(seg), ModelCost, PROMPT_VERSION, TRUE)
     : seg \in Segments}
  \cup {RabanoutRecord(SegmentA, TextHebrew, sha256(SegmentA), ModelCost, OldPromptVersion, TRUE),
        RabanoutRecord(SegmentA, TextHebrew, sha256(SegmentA), None, PROMPT_VERSION, TRUE)}

InitialLegacyKeys ==
  {generateLegacyCacheKey(MakeInput(TrefFull, SegmentA, ModelPrimary), ModelCost)}

NoGuideCalls ==
  /\ InitGuide
  /\ upstream = [k \in Corpora |-> 1]
  /\ clients = {}
  /\ lockCall = LockIdle
  /\ NoAlignmentCalls
  /\ NoChunkerRuns
  /\ NoSimilarityRuns
  /\ NoTimeoutRaces
  /\ NoBuildJobs
  /\ NoSourceFetches

\* The explanation memoizer alone, over the stores it may find.
InitExplain ==
  /\ InitStores
  /\ \E p \in Paths : \E r \in InitialRabanoutRecords \cup {NoRecord} :
        rabanout = [q \in Paths |-> IF q = p THEN r ELSE NoRecord]
  /\ \E K \in {{}} \cup {{k} : k \in InitialLegacyKeys} :
     \E version \in {PROMPT_VERSION, OldPromptVersion, None} :
        /\ K = {} => version = None
        /\ legacy = [k \in LegacyKeys |->
                      IF k \in K THEN LegacyRecord(TextHebrew, ModelCost, version, TRUE)
                      ELSE NoRecord]
  /\ NoGuideCalls

NextExplain ==
  \/ \E input \in Inputs : StartCall(input)
  \/ RabanoutLookup
  \/ LegacyLookup
  \/ \E text \in LLMTexts : LlmAttemptOk(text)
  \/ \E e \in ErrorMessages : LlmAttemptFail(e)
  \/ LlmBackoff
  \/ GenerateReturned
  \/ RepairReturned
  \/ CascadeThrown

SpecExplain == InitExplain /\ [][NextExplain]_vars

NoExplainCalls ==
  /\ InitStores
  /\ rabanout = [q \in Paths |-> NoRecord]
  /\ legacy = [k \in LegacyKeys |-> NoRecord]

\* Two callers request the guide of one fingerprint that has no record yet.
Init ==
  /\ NoExplainCalls
  /\ InitGuide
  /\ upstream \in [Corpora -> 0..MaxGuideChunks]
  /\ clients = Callers
  /\ lockCall = LockIdle
  /\ NoAlignmentCalls
  /\ NoChunkerRuns
  /\ NoSimilarityRuns
  /\ NoTimeoutRaces
  /\ NoBuildJobs
  /\ NoSourceFetches

Next ==
  \/ \E c \in Callers : Begin(c)
  \/ \E c \in Callers : LoadReady(c)
  \/ \E c \in Callers : Relock(c)
  \/ \E c \in Callers : Poll(c)
  \/ \E c \in Callers : RelockAfterWait(c)
  \/ \E c \in Callers : LoadAfterWait(c)
  \/ \E c \in Callers : \E ok \in BOOLEAN : Fetch(c, ok)
  \/ \E c \in Callers : \E k \in Corpora : TaskCheck(c, k)
  \/ \E c \in Callers : \E k \in Corpora :
        \E o \in {"hit", "text", "empty", "throw"} : TaskExplain(c, k, o)
  \/ \E c \in Callers : Cancel(c)
  \/ \E c \in Callers : Collect(c)
  \/ \E c \in Callers : \E ok \in BOOLEAN : Summarize(c, ok, TRUE)
  \/ \E c \in Callers : \E outcome \in SaveOutcomes : Save(c, outcome)
  \/ Tick

Spec == Init /\ [][Next]_vars

\* One caller, longer corpora: a run that is cancelled while it explains.
InitCancel ==
  /\ NoExplainCalls
  /\ InitGuide
  /\ upstream \in [Corpora -> 0..MaxCancelChunks]
  /\ clients = {"a"}
  /\ lockCall = LockIdle
  /\ NoAlignmentCalls
  /\ NoChunkerRuns
  /\ NoSimilarityRuns
  /\ NoTimeoutRaces
  /\ NoBuildJobs
  /\ NoSourceFetches

NextCancel ==
  \/ \E c \in Callers : Begin(c)
  \/ \E c \in Callers : \E ok \in BOOLEAN : Fetch(c, ok)
  \/ \E c \in Callers : \E k \in Corpora : TaskCheck(c, k)
  \/ \E c \in Callers : \E k \in Corpora :
        \E o \in {"hit", "text", "empty", "throw"} : TaskExplain(c, k, o)
  \/ \E c \in Callers : Cancel(c)
  \/ \E c \in Callers : Collect(c)
  \/ \E c \in Callers : \E ok \in BOOLEAN : Summarize(c, ok, TRUE)
  \/ \E c \in Callers : \E outcome \in SaveOutcomes : Save(c, outcome)

SpecCancel == InitCancel /\ [][NextCancel]_vars

\* One caller, explanations and a summary that may fail their validation,
\* over stores that hold validated and unvalidated explanations.
MaxValidateChunks == 2
StoredExplanations ==
  {e \in [ChunkIds -> {None, "text", "unvalidated"}] :
     \A id \in ChunkIds : id[2] >= MaxGuideChunks => e[id] = None}

InitValidate ==
  /\ NoExplainCalls
  /\ canon = CanonAbsent
  /\ now = TickMs
  /\ callers = [c \in Callers |-> CallerIdle]
  /\ explained \in StoredExplanations
  /\ saves = 0
  /\ upstream \in [Corpora -> 0..MaxValidateChunks]
  /\ clients = {"a"}
  /\ lockCall = LockIdle
  /\ NoAlignmentCalls
  /\ NoChunkerRuns
  /\ NoSimilarityRuns
  /\ NoTimeoutRaces
  /\ NoBuildJobs
  /\ NoSourceFetches

NextValidate ==
  \/ \E c \in Callers : Begin(c)
  \/ \E c \in Callers : \E ok \in BOOLEAN : Fetch(c, ok)
  \/ \E c \in Callers : \E k \in Corpora : TaskCheck(c, k)
  \/ \E c \in Callers : \E k \in Corpora :
        \E o \in {"hit", "text", "unvalidated", "empty", "throw"} : TaskExplain(c, k, o)
  \/ \E c \in Callers : Collect(c)
  \/ \E c \in Callers : \E ok, validated \in BOOLEAN : Summarize(c, ok, validated)
  \/ \E c \in Callers : \E outcome \in SaveOutcomes : Save(c, outcome)

SpecValidate == InitValidate /\ [][NextValidate]_vars

\* The records the lock transaction may find, and the times it may run at.
LockRecords ==
  {CanonAbsent}
  \cup {[status |-> st, summaryText |-> sm, updatedAt |-> u, error |-> None, chunks |-> {},
          sources |-> <<>>, validated |-> FALSE]
         : st \in {"processing", "failed"}, sm \in {NoValue, <<"summary", "a">>},
           u \in {0, TickMs - 1, TickMs, TickMs + 1}}
  \cup {[status |-> "ready", summaryText |-> <<"summary", "a">>, updatedAt |-> u,
          error |-> None, chunks |-> {}, sources |-> sortSources(RequestSources["a"]),
          validated |-> TRUE]
         : u \in {TickMs, TickMs + 1}}

LockTimes ==
  {TickMs + d : d \in {1, 2, CANONICAL_LOCK_STALE_MS - 1, CANONICAL_LOCK_STALE_MS,
                        CANONICAL_LOCK_STALE_MS + 1, CANONICAL_LOCK_STALE_MS + 2,
                        2 * CANONICAL_LOCK_STALE_MS}}

InitLock ==
  /\ NoExplainCalls
  /\ InitGuide
  /\ upstream = [k \in Corpora |-> 1]
  /\ clients = {}
  /\ \E r \in LockRecords : \E t \in LockTimes :
        lockCall = [before |-> r, at |-> t, state |-> None, after |-> r]
  /\ NoAlignmentCalls
  /\ NoChunkerRuns
  /\ NoSimilarityRuns
  /\ NoTimeoutRaces
  /\ NoBuildJobs
  /\ NoSourceFetches

NextLock == LockTransaction

SpecLock == InitLock /\ [][NextLock]_vars

\* Concurrent getOrBuildSimanAlignment calls for one (section, siman), over
\* every record an earlier call or a crashed builder may have left.
AlignLongAgoMs == AlignTickMs

InitialAlignmentRecords ==
  {AlignAbsent,
   AlignmentRecord("failed", CURRENT_CACHE_VERSION, None, NoTimestamp,
                   AlignLongAgoMs, NoTimestamp, "alignment_build_failed")}
  \cup {AlignmentRecord("ready", v, h, NoTimestamp, AlignLongAgoMs, checked, None) :
          v \in {CURRENT_CACHE_VERSION, OldCacheVersion}, h \in SourceHashes,
          checked \in {NoTimestamp, AlignEpochMs - SOURCE_HASH_RECHECK_MS,
                       AlignEpochMs - AlignTickMs}}
  \cup {AlignmentRecord("building", CURRENT_CACHE_VERSION, None, expires,
                        AlignLongAgoMs, NoTimestamp, None) :
          expires \in {AlignEpochMs, AlignEpochMs + AlignTickMs}}

InitAlign ==
  /\ NoExplainCalls
  /\ InitGuide
  /\ upstream = [k \in Corpora |-> 1]
  /\ clients = {}
  /\ lockCall = LockIdle
  /\ NoChunkerRuns
  /\ NoSimilarityRuns
  /\ NoTimeoutRaces
  /\ NoBuildJobs
  /\ NoSourceFetches
  /\ \E r \in InitialAlignmentRecords : al = [AlignIdle EXCEPT !.rec = r]

NextAlign ==
  \/ \E c \in AlignCallers : AlignStart(c)
  \/ \E c \in AlignCallers : AlignLoad(c)
  \/ \E c \in AlignCallers : \E fetched \in BOOLEAN : AlignRevalidate(c, fetched)
  \/ \E c \in AlignCallers : AlignWait(c)
  \/ \E c \in AlignCallers : AlignLoadLatest(c)
  \/ \E c \in AlignCallers : AlignTryLock(c)
  \/ \E c \in AlignCallers : \E built \in BOOLEAN : AlignBuild(c, built)
  \/ AlignTick

SpecAlign == InitAlign /\ [][NextAlign]_vars

\* Chunker runs over texts whose lengths and marks sit around the limits.
MaxFragmentWords == 400
MaxClauses == 3

Text(letters, len, marks) ==
  [i \in 1..len |-> Word(letters, IF i \in DOMAIN marks THEN marks[i] ELSE "")]

Fragment(ref, path, text) == [ref |-> ref, path |-> path, text |-> text]

FragmentLengths ==
  {MAX_WORDS_PER_CHUNK, MAX_WORDS_PER_CHUNK + 1,
   MAX_WORDS_PER_CHUNK + MAX_WORDS_PER_CHUNK + 1, MaxFragmentWords}

MarkPositions ==
  {MIN_WORDS_PER_CHUNK - 1, MIN_WORDS_PER_CHUNK, MIN_WORDS_PER_CHUNK + 10,
   MAX_WORDS_PER_CHUNK + MIN_WORDS_PER_CHUNK}

MarkChoices ==
  {[i \in S |-> m] : S \in {T \in SUBSET MarkPositions : Cardinality(T) <= 2},
                     m \in {".", "?"}}

\* What may follow the first fragment: nothing, an empty one, a short one.
SecondFragments ==
  {<<>>,
   <<Fragment("Tur, Orach Chayim 24", <<1, 2>>, <<>>)>>,
   <<Fragment("Tur, Orach Chayim 24", <<1, 2>>, Text("b", 5, [i \in {5} |-> "."]))>>}

ExplanationInputs ==
  {<<Fragment("Shabbat 2a", IF Len(rest) = 0 THEN NoPath ELSE <<1>>,
              Text("a", len, marks))>> \o rest
     : len \in FragmentLengths, marks \in MarkChoices, rest \in SecondFragments}

\* A text of clauses with the given word counts, then words without a mark.
RECURSIVE ClauseText(_, _, _)
ClauseText(letters, sizes, tail) ==
  IF Len(sizes) = 0 THEN Text(letters, tail, <<>>)
  ELSE Text(letters, Head(sizes),
            [i \in {Head(sizes)} |-> IF Len(sizes) % 2 = 0 THEN ":" ELSE "."])
       \o ClauseText(letters, Tail(sizes), tail)

ClauseSizes(p) ==
  {p.min - 15, p.min + 1, p.max + 10, p.max + OversizeSlack + 1}

ClauseInputs(p) ==
  {<<Fragment("Shabbat 2a", <<1>>, ClauseText("a", sizes, tail)),
     Fragment("Tur, Orach Chayim 24", NoPath, Text("b", 5, [i \in {5} |-> "."]))>>
     : sizes \in UNION {[1..n -> ClauseSizes(p)] : n \in 1..MaxClauses},
       tail \in {0, 5}}

InitChunk ==
  /\ NoExplainCalls
  /\ InitGuide
  /\ upstream = [k \in Corpora |-> 1]
  /\ clients = {}
  /\ lockCall = LockIdle
  /\ NoAlignmentCalls
  /\ NoSimilarityRuns
  /\ NoTimeoutRaces
  /\ NoBuildJobs
  /\ NoSourceFetches
  /\ \/ \E fragments \in ExplanationInputs :
          ck = [CkIdle EXCEPT !.kind = "explanation", !.source = "HE",
                              !.fragments = fragments]
     \/ \E p \in Profiles : \E fragments \in ClauseInputs(p) :
          ck = [CkIdle EXCEPT !.kind = "clause", !.profile = p,
                              !.fragments = fragments]

NextChunk == ChunkStructuredText \/ ChunkWithLimits

SpecChunk == InitChunk /\ [][NextChunk]_vars

\* The similarity selection alone: one query against an index of two segments.
MaxTokens == 3

\* The words of the enumerated texts.
CommonWords == {"av", "gd", "h"}

RECURSIVE TextsUpTo(_)
TextsUpTo(n) ==
  IF n = 0 THEN {<<>>}
  ELSE TextsUpTo(n - 1) \cup {Append(t, w) : t \in {u \in TextsUpTo(n - 1) : Len(u) = n - 1},
                                               w \in CommonWords}

SimilarityTexts == TextsUpTo(MaxTokens)

InitSim ==
  /\ NoExplainCalls
  /\ InitGuide
  /\ upstream = [k \in Corpora |-> 1]
  /\ clients = {}
  /\ lockCall = LockIdle
  /\ NoAlignmentCalls
  /\ NoChunkerRuns
  /\ NoTimeoutRaces
  /\ NoBuildJobs
  /\ NoSourceFetches
  /\ \E query \in SimilarityTexts : \E first \in SimilarityTexts : \E second \in SimilarityTexts :
        sim = [SimIdle EXCEPT !.query = query,
                              !.segments = <<[ref |-> "Tur 1", text |-> first],
                                             [ref |-> "Tur 2", text |-> second]>>]

NextSim == BuildSimilarityIndex \/ SelectBestRefs

SpecSim == InitSim /\ [][NextSim]_vars

\* Selections over a corpus of more segments than the selection keeps: the
\* first segments carry one text, the next ones another and the last one a
\* third, consecutive segments share a ref or not, and the long queries give
\* scores under 0.05 and between 0.05 and 0.08.
MaxSegments == 14
LongQuery ==
  <<"w01", "w02", "w03", "w04", "w05", "w06", "w07", "w08", "w09", "w10",
    "w11", "w12", "w13", "w14", "w15">>
SelectQueries ==
  {<<>>, <<"h">>, <<"av", "gd", "kl">>, LongQuery, SubSeq(LongQuery, 1, 9),
   SubSeq(LongQuery, 1, 8)}
SelectSegmentTexts == {<<"h">>, <<"av">>, <<"av", "gd">>, <<"kl", "av", "gd">>, <<"w01">>}
SegmentRefs ==
  <<"Tur 1", "Tur 2", "Tur 3", "Tur 4", "Tur 5", "Tur 6", "Tur 7", "Tur 8",
    "Tur 9", "Tur 10", "Tur 11", "Tur 12", "Tur 13", "Tur 14", "Tur 15">>

InitSelect ==
  /\ NoExplainCalls
  /\ InitGuide
  /\ upstream = [k \in Corpora |-> 1]
  /\ clients = {}
  /\ lockCall = LockIdle
  /\ NoAlignmentCalls
  /\ NoChunkerRuns
  /\ NoTimeoutRaces
  /\ NoBuildJobs
  /\ NoSourceFetches
  /\ \E query \in SelectQueries : \E first, second, last \in SelectSegmentTexts :
     \E boundary \in 0..(MaxSegments - 1) : \E shared \in BOOLEAN :
        sim = [SimIdle EXCEPT
                 !.query = query,
                 !.segments = [i \in 1..MaxSegments |->
                    [ref |-> SegmentRefs[IF shared THEN (i + 1) \div 2 ELSE i],
                     text |-> IF i = MaxSegments THEN last
                              ELSE IF i <= boundary THEN first ELSE second]]]

SpecSelect == InitSelect /\ [][NextSim]_vars

\* One paragraph of an alignment build, over paragraph texts, corpus segments
\* and link answers that reach every mode of both corpora.
JobTexts == {<<>>, <<"h">>, <<"av", "gd">>, <<"av", "gd", "kl">>}
JobSegmentTexts == {<<>>, <<"av">>, <<"gd", "kl">>, <<"kl", "av", "gd">>}
LinkedTurRefs == {<<>>, <<"Tur 1">>, <<"Tur 1", "Tur 1 ">>, <<"Tur 1", "Tur 2">>}
LinkedBeitYosefRefs == {<<>>, <<"Beit Yosef 1">>, <<"Beit Yosef 1", "Beit Yosef 2">>}
LinkAnswers ==
  {LinksFailed} \cup
  {[failed |-> FALSE, turRefs |-> t, beitYosefRefs |-> b] :
     t \in LinkedTurRefs, b \in LinkedBeitYosefRefs}

InitJob ==
  /\ NoExplainCalls
  /\ InitGuide
  /\ upstream = [k \in Corpora |-> 1]
  /\ clients = {}
  /\ lockCall = LockIdle
  /\ NoAlignmentCalls
  /\ NoChunkerRuns
  /\ NoSimilarityRuns
  /\ NoTimeoutRaces
  /\ NoSourceFetches
  /\ \E text \in JobTexts : \E t1, t2, b1, b2 \in JobSegmentTexts :
        job = [JobIdle EXCEPT
                 !.text = text,
                 !.tur = <<[ref |-> "Tur 1", text |-> t1], [ref |-> "Tur 2", text |-> t2]>>,
                 !.beitYosef = <<[ref |-> "Beit Yosef 1", text |-> b1],
                                 [ref |-> "Beit Yosef 1", text |-> b2]>>]

NextJob ==
  \/ JobIndexes
  \/ \E linked \in LinkAnswers : JobLinks(linked)
  \/ JobEntry

SpecJob == InitJob /\ [][NextJob]_vars

\* The fetch of one aligned corpus, over the entries an alignment can hold for
\* the paragraph and every answer of the upstream.
MaxFetched == 2
SeifEntries ==
  {NoSeifEntry} \cup
  {[present |-> TRUE, turRefs |-> t.refs, turMode |-> t.mode,
    byRefs |-> b.refs, byMode |-> b.mode] :
     t \in {[refs |-> <<>>, mode |-> "none"],
            [refs |-> <<"Tur 1">>, mode |-> "linked-passages"],
            [refs |-> <<"Tur 1">>, mode |-> "fallback-similarity"]},
     b \in {[refs |-> <<>>, mode |-> "none"],
            [refs |-> <<"Beit Yosef 1">>, mode |-> "linked-passages"],
            [refs |-> <<"Beit Yosef 1">>, mode |-> "fallback-similarity"]}}

InitFetch ==
  /\ NoExplainCalls
  /\ InitGuide
  /\ upstream = [k \in Corpora |-> 1]
  /\ clients = {}
  /\ lockCall = LockIdle
  /\ NoAlignmentCalls
  /\ NoChunkerRuns
  /\ NoSimilarityRuns
  /\ NoTimeoutRaces
  /\ NoBuildJobs
  /\ \E sourceKey \in AlignedCorpora : \E entry \in SeifEntries :
        fs = [FsIdle EXCEPT !.sourceKey = sourceKey, !.entry = entry]

NextFetch ==
  \/ FsBegin
  \/ \E ok \in BOOLEAN : \E segments \in 0..MaxFetched : FsSlice(ok, segments)
  \/ \E aligned, ok \in BOOLEAN : \E segments \in 0..MaxFetched :
        FsLookup(aligned, ok, segments)
  \/ \E linked \in LinkAnswers : \E ok \in BOOLEAN : \E segments \in 0..MaxFetched :
        FsLinks(linked, ok, segments)
  \/ \E ok \in BOOLEAN : \E segments \in 0..MaxFetched : FsFullSiman(ok, segments)
  \/ FsExplain

SpecFetch == InitFetch /\ [][NextFetch]_vars

\* The cascade alone, each attempt a race of the generation and its timer.
MaxRetryBudget == 3
RetryBudgets == 1..MaxRetryBudget

InitCascade ==
  /\ flow = FlowIdle
  /\ calls = <<>>
  /\ rabanout = [q \in Paths |-> NoRecord]
  /\ legacy = [k \in LegacyKeys |-> NoRecord]
  /\ InitGuide
  /\ upstream = [k \in Corpora |-> 1]
  /\ clients = {}
  /\ lockCall = LockIdle
  /\ NoAlignmentCalls
  /\ NoChunkerRuns
  /\ NoSimilarityRuns
  /\ \E preferredModel \in Models : \E maxRetries \in RetryBudgets :
        /\ llm = LlmStart(preferredModel, maxRetries)
        /\ gw = [GwIdle EXCEPT !.preferred = preferredModel]
        /\ NoBuildJobs
        /\ NoSourceFetches

NextCascade ==
  \/ RaceStart
  \/ \E text \in LLMTexts : RaceResolved(text)
  \/ \E e \in ErrorMessages : RaceRejected(e)
  \/ RaceTimedOut
  \/ LateTimer
  \/ LateCompletion
  \/ RaceBackoff

SpecCascade == InitCascade /\ [][NextCascade]_vars


(***************************************************************************)
(* Properties of the model cascade and of the explanation memoizer          *)
(***************************************************************************)

Finished == {calls[i] : i \in 1..Len(calls)}

\* C8. A call whose preferred model is the primary, whose generation was
\* answered by the first attempt on the cost model after the primary failed as
\* unavailable, and whose text is valid Hebrew, returns exactly that text with
\* modelUsed = cost model and cacheHit = false, and writes one record holding it.
C8_FallbackToCostModel ==
  [][(/\ flow.pc = "generate"
      /\ flow' # flow
      /\ flow.input.modelName = ModelPrimary
      /\ llm.pc = "returned"
      /\ llm.idx = 2
      /\ llm.attempt = 1
      /\ isModelUnavailableError(llm.lastError)
      /\ validateHebrewOutput(llm.text))
     => (/\ Len(calls') = Len(calls) + 1
         /\ LET out == calls'[Len(calls')] IN
            /\ ~out.thrown
            /\ out.explanation = llm.text
            /\ out.modelUsed = ModelCost
            /\ ~out.cacheHit
            /\ out.writes = 1
            /\ out.repairs = 0
            /\ rabanout'[rabanutDocPath(flow.input)] =
                 RabanoutRecord(flow.input.currentSegment, llm.text, flow.input.rawHash,
                                ModelCost, PROMPT_VERSION, TRUE))]_vars

C8_Witness ==
  \E out \in Finished :
    /\ out.input.modelName = ModelPrimary
    /\ out.unavailable
    /\ out.firstValid = "valid"
    /\ out.modelUsed = ModelCost
    /\ ~out.cacheHit
    /\ rabanout[rabanutDocPath(out.input)].modelName = ModelCost

\* A failed attempt: the cascade was attempting and did not return.
AttemptFailed == llm.pc = "attempt" /\ llm' # llm /\ llm'.pc # "returned"

\* The cascade left the candidate: first attempt of the next one, or the throw.
MovedOn ==
  \/ llm'.pc = "attempt" /\ llm'.idx = llm.idx + 1 /\ llm'.attempt = 1
  \/ llm'.pc = "thrown" /\ llm.idx = Len(llm.cands)

\* The cascade sleeps, then attempts the same candidate again.
Retried == llm'.pc = "sleep" /\ llm'.idx = llm.idx /\ llm'.attempt = llm.attempt

TwoCalls == Len(calls) = 2 /\ calls[2].input = calls[1].input /\ ~calls[1].thrown

\* C6 as stated: the second of two identical calls returns the explanation of
\* the first, with cacheHit = true and the first call's modelUsed.
C6_AsStated ==
  TwoCalls =>
    /\ ~calls[2].thrown
    /\ calls[2].explanation = calls[1].explanation
    /\ calls[2].cacheHit
    /\ calls[2].modelUsed = calls[1].modelUsed

\* C6. When the first of two identical calls returned a non-empty explanation,
\* the second returns the same explanation from the cache without running the
\* cascade, with cacheHit = true and the first call's modelUsed; when the
\* first returned an empty explanation the stored record is not accepted and
\* the second call is no cache hit.
C6_RepeatedCallHits ==
  TwoCalls =>
    IF Truthy(calls[1].explanation)
    THEN /\ ~calls[2].thrown
         /\ calls[2].explanation = calls[1].explanation
         /\ calls[2].cacheHit
         /\ calls[2].hitFrom \in {"rabanout", "legacy"}
         /\ calls[2].hitFrom = "legacy" => calls[1].hitFrom = "legacy"
         /\ calls[2].modelUsed = calls[1].modelUsed
         /\ calls[2].firstValid = None
    ELSE ~calls[2].cacheHit

\* A generated, non-empty explanation was served again from the cache.
C6_Witness ==
  /\ TwoCalls
  /\ ~calls[1].cacheHit
  /\ Truthy(calls[1].explanation)
  /\ calls[2].cacheHit
  /\ calls[2].modelUsed = calls[1].modelUsed

\* The chunk text of the call differs from the text of the structured record.
TextDiffers(out) == out.found.exists /\ out.found.rawHash # out.input.rawHash

\* The call ran the cascade.
Generated(out) == out.thrown \/ out.firstValid # None

\* C7 as stated: a structured hit needs the request's hash and the current
\* prompt version; a request with another text is a miss and generates.
C7_AsStated ==
  \A out \in Finished :
    /\ out.hitFrom = "rabanout" =>
         out.found.rawHash = out.input.rawHash /\ out.found.promptVersion = PROMPT_VERSION
    /\ TextDiffers(out) => ~out.cacheHit /\ Generated(out)

\* C7. A structured hit needs the request's hash and the current prompt
\* version; a request with another text than the stored record never hits the
\* structured key: it is served from a legacy entry of its own hash if there
\* is one (cacheHit = true, the entry migrated) and generates otherwise.
C7_HitNeedsHashAndVersion ==
  \A out \in Finished :
    /\ out.hitFrom = "rabanout" =>
         /\ out.found.exists
         /\ out.found.rawHash = out.input.rawHash
         /\ out.found.promptVersion = PROMPT_VERSION
    /\ TextDiffers(out) =>
         /\ out.hitFrom # "rabanout"
         /\ IF out.cacheHit THEN out.hitFrom = "legacy" /\ ~Generated(out)
            ELSE Generated(out)

\* A request found a record of another text under its key and generated.
C7_Witness ==
  \E out \in Finished :
    /\ TextDiffers(out)
    /\ out.found.promptVersion = PROMPT_VERSION
    /\ ~out.cacheHit
    /\ out.writes = 1

\* C10 as stated: after a first output that fails validation one repair round
\* runs and the call returns its output, flagged with its validation result,
\* with one record written; the call does not fail.
C10_AsStated ==
  \A out \in Finished :
    out.firstValid = "invalid" =>
      /\ out.repairs = 1
      /\ ~out.thrown
      /\ out.writes = 1
      /\ out.validated = validateHebrewOutput(out.explanation)

(***************************************************************************)
(* Properties of the canonical lock and of the orchestrator                 *)
(***************************************************************************)

\* The record the lock transaction leaves when it takes the lock.
Locked(rec, t) == [rec EXCEPT !.status = "processing", !.updatedAt = t]

\* C3 as stated: ready without a write; wait, without a write, for a processing
\* record whose updatedAt is less than 10 minutes old; acquired, with status
\* processing written, in every other case.
C3_AsStated ==
  lockCall.state # None =>
    LET b == lockCall.before
        age == lockCall.at - b.updatedAt
    IN IF b.status = "ready" /\ b.summaryText # NoValue
       THEN lockCall.state = "ready" /\ lockCall.after = b
       ELSE IF b.status = "processing" /\ b.updatedAt # 0 /\ age < CANONICAL_LOCK_STALE_MS
            THEN lockCall.state = "wait" /\ lockCall.after = b
            ELSE lockCall.state = "acquired" /\ lockCall.after = Locked(b, lockCall.at)

\* C3. ready without a write; wait, without a write, for a processing record
\* whose updatedAt is at most 10 minutes old; acquired, with status processing
\* written, in every other case (absent, failed, or processing with an
\* updatedAt that is missing or more than 10 minutes old).
C3_LockOutcomes ==
  lockCall.state # None =>
    LET b == lockCall.before
        age == lockCall.at - b.updatedAt
    IN IF b.status = "ready" /\ b.summaryText # NoValue
       THEN lockCall.state = "ready" /\ lockCall.after = b
       ELSE IF b.status = "processing" /\ b.updatedAt # 0 /\ age <= CANONICAL_LOCK_STALE_MS
            THEN lockCall.state = "wait" /\ lockCall.after = b
            ELSE lockCall.state = "acquired" /\ lockCall.after = Locked(b, lockCall.at)

\* A caller waited on a lock that was exactly 10 minutes old.
C3_Witness ==
  /\ lockCall.state = "wait"
  /\ lockCall.before.status = "processing"
  /\ lockCall.at - lockCall.before.updatedAt = CANONICAL_LOCK_STALE_MS
  /\ lockCall.after = lockCall.before

\* The caller ran a step of the generation pipeline (fetch, explain, summarize).
RanPipeline(c) ==
  callers[c].fetches > 0 \/ callers[c].llmCalls > 0 \/ callers[c].summaries > 0

\* C1 as stated: of two concurrent callers one acquires and runs the pipeline;
\* the one that obtained 'wait' only polls and never runs the pipeline.
C1_AsStated ==
  \A c \in Callers : \A d \in Callers \ {c} :
    (callers[c].first = "acquired" /\ callers[d].first = "wait") => ~RanPipeline(d)

\* C1. A caller that starts while another holds a lock at most 10 minutes old
\* obtains 'wait', and the other obtained 'acquired'. The waiter runs no
\* pipeline step while it polls, and none at all if a poll loads the guide; it
\* runs the pipeline itself only after all CANONICAL_READY_WAIT_ATTEMPTS polls
\* failed and it tried the lock again, with the lock only if that attempt
\* returned 'acquired'.
C1_SingleFlight ==
  \A d \in Callers :
    /\ callers[d].concurrent => callers[d].first = "wait"
    /\ callers[d].first = "wait" =>
         /\ \E c \in Callers \ {d} : callers[c].first = "acquired"
         /\ callers[d].pc = "poll" => ~RanPipeline(d)
         /\ callers[d].result = "loaded" => ~RanPipeline(d)
         /\ RanPipeline(d) =>
              /\ callers[d].attempt = CANONICAL_READY_WAIT_ATTEMPTS
              /\ callers[d].state \in {"acquired", "wait", "ready"}
              /\ callers[d].hasCanonicalLock <=> callers[d].state = "acquired"

\* A waiter polled to the end, found the lock still held, and ran the pipeline
\* without the lock while the holder was still running.
C1_Witness ==
  \E c \in Callers : \E d \in Callers \ {c} :
    /\ callers[c].first = "acquired"
    /\ callers[c].pc \notin {"idle", "done"}
    /\ callers[d].first = "wait"
    /\ callers[d].concurrent
    /\ callers[d].attempt = CANONICAL_READY_WAIT_ATTEMPTS
    /\ callers[d].state = "wait"
    /\ callers[d].fetches > 0

\* C2 as stated: a call that starts after the record was saved as ready returns
\* the stored guide and performs no fetch and no LLM call.
C2_AsStated ==
  \A c \in Callers :
    callers[c].afterReady =>
      /\ ~RanPipeline(c)
      /\ callers[c].pc = "done" => callers[c].result = "loaded"

\* Some corpus task of the caller reported cancelled.
SomeTaskCancelled(c) == \E k \in Corpora : callers[c].tasks[k].pc = "cancelled"

\* The caller returns in this step.
Returns(c) == callers[c].pc # "done" /\ callers'[c].pc = "done"

RECURSIVE SumFurther(_, _)
\* Explanation calls that reached the LLM after the flag was set, over the tasks in K.
SumFurther(c, K) ==
  IF K = {} THEN 0
  ELSE LET k == CHOOSE x \in K : TRUE IN
       callers[c].tasks[k].further + SumFurther(c, K \ {k})

AlignReturned == {c \in AlignCallers : al.callers[c].outcome = "returned"}

\* C11, as stated: while the callers of one (section, siman) overlap, the
\* store sees at most one building -> ready transition and all callers that
\* return, return the same seifMap.
C11_AsStated ==
  al.overlapping =>
    /\ al.readyWrites <= 1
    /\ \A c, d \in AlignReturned :
         al.callers[c].value.seifMap = al.callers[d].value.seifMap

\* C12, as stated: a caller whose revalidation found the stored source hash
\* different from the fresh one returns a record whose updatedAt is newer than
\* the stored record's.
C12_AsStated ==
  \A c \in AlignReturned :
    al.callers[c].forceRebuild =>
      al.callers[c].value.updatedAt > al.callers[c].existing.updatedAt

(***************************************************************************)
(* Canonical guide: what a reader gets, failed writes, failed runs          *)
(***************************************************************************)

\* Caller c generated the guide under the lock and saved it, d loaded it.
SavedAndLoaded(c, d) ==
  /\ callers[c].result = "generated"
  /\ callers[c].hasCanonicalLock
  /\ callers[d].result = "loaded"

\* C13, as stated: the guideData a caller loads from the canonical record
\* equals, field for field, the guideData returned to the caller that
\* generated it.
C13_AsStated ==
  \A c, d \in Callers : SavedAndLoaded(c, d) => callers[d].guide = callers[c].guide

\* C13, amended: the loaded guide has the generator's summary and, for each of
\* its chunks with a non-empty explanation, the same id and explanation; every
\* loaded chunk has cacheHit = true, chunks with an empty explanation are
\* missing, and sources is the generator's request.sources sorted.
C13_LoadedGuide ==
  \A c, d \in Callers :
    SavedAndLoaded(c, d) =>
      /\ callers[d].guide.summary = callers[c].guide.summary
      /\ callers[d].guide.chunks =
           {[id |-> ch.id, explanation |-> ch.explanation, cacheHit |-> TRUE]
              : ch \in {x \in callers[c].guide.chunks : x.explanation = "text"}}
      /\ callers[d].guide.sources = sortSources(callers[c].guide.sources)

\* A reader loaded a guide one of whose chunks the generator returned with an
\* empty explanation and cacheHit = false, from a request in unsorted order.
C13_Witness ==
  \E c, d \in Callers :
    /\ SavedAndLoaded(c, d)
    /\ \E x \in callers[c].guide.chunks : x.explanation = "empty"
    /\ \E x \in callers[c].guide.chunks : x.explanation = "text" /\ ~x.cacheHit
    /\ callers[c].guide.sources # callers[d].guide.sources

\* The terminal write of a lock holder fails: the call ends in the save step
\* without a committed batch.
TerminalWriteFails(c) ==
  /\ callers[c].pc = "save"
  /\ callers[c].hasCanonicalLock
  /\ callers'[c].pc = "done"
  /\ saves' = saves

\* C14, as stated: when the terminal write fails, the lock holder marks the
\* record failed with reason cache_write_failed and still returns success with
\* its in-memory guide; the next lock attempt on that record acquires it.
C14_AsStated ==
  [][\A c \in Callers :
       TerminalWriteFails(c) =>
         /\ canon'.status = "failed"
         /\ canon'.error = "cache_write_failed"
         /\ callers'[c].result = "generated"
         /\ callers'[c].guide = callers[c].guide
         /\ tryAcquireCanonicalLock(canon', now').state = "acquired"]_vars

\* The call of c ends in the catch block.
Throws(c) == Returns(c) /\ callers'[c].result = "error"

GuideErrorMessages == {"no_source", "explain_failed", "summary_failed", "mark_write_failed"}

\* C15, as stated: whenever an exception ends the call, the canonical record is
\* set to failed with the error message, the next tryAcquireCanonicalLock
\* returns acquired, and the call returns success = false.
C15_AsStated ==
  [][\A c \in Callers :
       Throws(c) =>
         /\ canon'.status = "failed"
         /\ canon'.error \in GuideErrorMessages
         /\ tryAcquireCanonicalLock(canon', now').state = "acquired"]_vars

\* C15, amended: an exception ends the call with success = false and no guide;
\* if the call holds the canonical lock the record is set to failed with the
\* error message and the next tryAcquireCanonicalLock returns acquired; if it
\* runs without the lock the record is left as it is.
C15_FailureReleasesLock ==
  [][\A c \in Callers :
       Throws(c) =>
         /\ callers'[c].guide = NoGuide
         /\ callers[c].hasCanonicalLock =>
              /\ canon'.status = "failed"
              /\ canon'.error \in GuideErrorMessages
              /\ canon'.updatedAt = now
              /\ tryAcquireCanonicalLock(canon', now').state = "acquired"
         /\ ~callers[c].hasCanonicalLock => canon' = canon]_vars

\* A lock holder's run threw and left the record failed with the message,
\* while the other call, which ran without the lock, had thrown before.
C15_Witness ==
  \E c, d \in Callers :
    /\ callers[c].result = "error" /\ callers[c].hasCanonicalLock
    /\ callers[d].result = "error" /\ ~callers[d].hasCanonicalLock
    /\ callers[d].state \in {"wait", "ready"}
    /\ canon.status = "failed"
    /\ canon.error = "summary_failed"

(***************************************************************************)
(* Chunkers                                                                 *)
(***************************************************************************)

\* The chunks of a finished run that carry the ref of fragment f, in order.
ChunksOf(f) == SelectSeq(ck.chunks, LAMBDA c : c.ref = f.ref)

ExplanationRun == ck.kind = "explanation" /\ ck.done
ClauseRun == ck.kind = "clause" /\ ck.done

\* C16. A fragment of more than 180 words given to the explanation chunker
\* yields at least two chunks, and each of them except the last has between
\* 120 and 180 words.
C16_WordBudget ==
  ExplanationRun =>
    \A i \in 1..Len(ck.fragments) :
      LET f == ck.fragments[i]
          cs == ChunksOf(f)
      IN Len(f.text) > MAX_WORDS_PER_CHUNK =>
           /\ Len(cs) >= 2
           /\ \A k \in 1..(Len(cs) - 1) :
                /\ Len(cs[k].text) >= MIN_WORDS_PER_CHUNK
                /\ Len(cs[k].text) <= MAX_WORDS_PER_CHUNK

\* A long fragment was cut into three chunks, one at a sentence boundary
\* before 180 words and one at 180 words.
C16_Witness ==
  /\ ExplanationRun
  /\ \E i \in 1..Len(ck.fragments) :
       LET cs == ChunksOf(ck.fragments[i]) IN
       /\ Len(ck.fragments[i].text) > MAX_WORDS_PER_CHUNK
       /\ Len(cs) >= 3
       /\ \E k \in 1..(Len(cs) - 1) : Len(cs[k].text) < MAX_WORDS_PER_CHUNK
       /\ \E k \in 1..(Len(cs) - 1) : Len(cs[k].text) = MAX_WORDS_PER_CHUNK

\* The words of a clause-chunker text that end a clause.
ClauseEnds(text) == {p \in 1..Len(text) : text[p][2] \in ClauseMarks}

\* C17, as stated: every chunk of the clause-based chunker except the last of
\* its fragment has between P.min and P.max + 50 words.
C17_AsStated ==
  ClauseRun =>
    \A i \in 1..Len(ck.fragments) :
      LET cs == ChunksOf(ck.fragments[i]) IN
      \A k \in 1..(Len(cs) - 1) :
        /\ countWords(cs[k].text) >= ck.profile.min
        /\ countWords(cs[k].text) <= ck.profile.max + OversizeSlack

\* C17, amended: a chunk that is not the last of its fragment has more than
\* P.max + 50 words only if it is one single clause, and fewer than P.min
\* words only if it was flushed ahead of a clause that would have taken the
\* group past P.max + 50 words, or is such a clause emitted on its own.
C17_ClauseBudget ==
  ClauseRun =>
    \A i \in 1..Len(ck.fragments) :
      LET cs == ChunksOf(ck.fragments[i])
          limit == ck.profile.max + OversizeSlack
      IN \A k \in 1..(Len(cs) - 1) :
           LET n == countWords(cs[k].text) IN
           /\ n > limit => Cardinality(ClauseEnds(cs[k].text)) = 1
           /\ n < ck.profile.min =>
                \/ n + First(ClauseEnds(cs[k + 1].text)) > limit
                \/ /\ k > 1
                   /\ Cardinality(ClauseEnds(cs[k].text)) = 1
                   /\ countWords(cs[k - 1].text) + n > limit

\* A fragment gave a chunk below P.min followed by a single clause above
\* P.max + 50, neither of them the last chunk of the fragment.
C17_Witness ==
  /\ ClauseRun
  /\ \E i \in 1..Len(ck.fragments) :
       LET cs == ChunksOf(ck.fragments[i]) IN
       \E k \in 1..(Len(cs) - 2) :
         /\ countWords(cs[k].text) < ck.profile.min
         /\ countWords(cs[k + 1].text) > ck.profile.max + OversizeSlack

\* C18, as stated: once a chunk of the explanation chunker has 120 words it
\* ends at the first word that contains a sentence-boundary character, so no
\* chunk goes on after such a word.
C18_AsStated ==
  ExplanationRun =>
    \A j \in 1..Len(ck.chunks) :
      \A p \in MIN_WORDS_PER_CHUNK..(Len(ck.chunks[j].text) - 1) :
        ~isSentenceBoundary(ck.chunks[j].text[p])

\* The text of chunk c is a stretch of consecutive words of fragment f.
CutFrom(c, f) ==
  /\ Len(c.text) > 0
  /\ \E start \in 1..Len(f.text) :
       /\ start + Len(c.text) - 1 <= Len(f.text)
       /\ SubSeq(f.text, start, start + Len(c.text) - 1) = c.text

\* C19. Every chunk of a run carries the ref and the path of one fragment of
\* the input and its text is cut from that fragment alone.
C19_Provenance ==
  ck.done =>
    \A j \in 1..Len(ck.chunks) :
      \E i \in 1..Len(ck.fragments) :
        /\ ck.chunks[j].ref = ck.fragments[i].ref
        /\ ck.chunks[j].path = ck.fragments[i].path
        /\ CutFrom(ck.chunks[j], ck.fragments[i])

\* A run over two fragments with paths, the first split into several chunks.
C19_Witness ==
  /\ ExplanationRun
  /\ Len(ck.fragments) = 2
  /\ Len(ChunksOf(ck.fragments[1])) >= 2
  /\ Len(ChunksOf(ck.fragments[2])) = 1
  /\ \A j \in 1..Len(ck.chunks) : ck.chunks[j].path # NoPath

\* ---- C21 ----------------------------------------------------------------
\* The candidates of the index and their scores, side by side.
ScoredPairs ==
  {<<sim.index[i], sim.selection.scored[i]>> : i \in 1..Len(sim.selection.scored)}

Covers(a, b) == b.tokens \subseteq a.tokens /\ b.bigrams \subseteq a.bigrams

\* C21: for one query, a candidate whose token set and bigram set contain
\* those of another candidate scores at least as much as the other.
C21_Monotone ==
  sim.done =>
    \A pa \in ScoredPairs : \A pb \in ScoredPairs :
       Covers(pa[1], pb[1]) => AtLeast(pa[2].score, pb[2].score)

\* A candidate strictly containing another, bigrams included, scores more.
C21_Witness ==
  /\ sim.done
  /\ \E pa \in ScoredPairs : \E pb \in ScoredPairs :
       /\ Covers(pa[1], pb[1])
       /\ pa[1].tokens # pb[1].tokens
       /\ pb[1].bigrams # {}
       /\ Above(pa[2].score, pb[2].score)
       /\ Above(pb[2].score, <<0, 1>>)

\* ---- C22 ----------------------------------------------------------------
\* The callers inside the generation pipeline with the canonical lock.
LockHolders ==
  {c \in Callers : callers[c].hasCanonicalLock /\ callers[c].pc \notin {"idle", "done"}}

\* C22 as stated: at any time at most one caller is inside the generation
\* pipeline holding the canonical lock, however long the pipeline runs.
C22_AsStated == Cardinality(LockHolders) <= 1

\* ---- C23 ----------------------------------------------------------------
\* A step of the pipeline of caller c, from the fetch to the terminal write.
PipelineStep(c) ==
  \/ \E ok \in BOOLEAN : Fetch(c, ok)
  \/ \E k \in Corpora : TaskCheck(c, k)
  \/ \E k \in Corpora : \E outcome \in {"hit", "text", "empty", "throw"} : TaskExplain(c, k, outcome)
  \/ Collect(c)
  \/ \E ok \in BOOLEAN : Summarize(c, ok, TRUE)
  \/ \E outcome \in SaveOutcomes : Save(c, outcome)

\* C23: a caller that obtained 'acquired' always has a next step until it
\* returns, and the step on which it returns (success, cancellation or
\* exception) writes status ready or failed to the canonical record; the
\* record is in processing only while such a caller is still running.
C23_HolderWrites ==
  /\ [](\A c \in LockHolders : ENABLED PipelineStep(c))
  /\ [](canon.status = "processing" => LockHolders # {})
  /\ [][\A c \in Callers :
          (Returns(c) /\ callers[c].hasCanonicalLock) =>
             /\ canon'.status \in {"ready", "failed"}
             /\ canon'.updatedAt = now]_vars

\* A lock holder was cancelled and returned: it left the record failed with
\* reason cancelled, and no holder is running any more.
C23_Witness ==
  \E c \in Callers :
    /\ callers[c].pc = "done"
    /\ callers[c].hasCanonicalLock
    /\ callers[c].result = "cancelled"
    /\ canon.status = "failed"
    /\ canon.error = "cancelled"
    /\ LockHolders = {}

\* ---- C24 ----------------------------------------------------------------
\* C24 as stated: once the canonical record is ready no later write changes
\* its status to failed or processing.
C24_AsStated == [][canon.status = "ready" => canon'.status = "ready"]_vars

\* ---- C25 ----------------------------------------------------------------
\* Every chunk of every corpus task of the caller was explained and its
\* explanation record is in the store.
AllChunksWritten(c) ==
  \A k \in Corpora :
    LET t == callers[c].tasks[k] IN
    /\ t.pc \in {"none", "done"}
    /\ Len(t.chunks) = t.n
    /\ \A i \in 0..(t.n - 1) : explained[<<k, i>>] # None

\* C25: a write that sets the canonical record to ready is the terminal save
\* of a caller all of whose per-chunk explanation writes are done and whose
\* summary call has returned; the summary, the chunk sub-records and the ready
\* status are written by that one commit.
C25_ReadyAfterChunks ==
  [][(canon' # canon /\ canon'.status = "ready") =>
       \E c \in Callers :
         /\ callers[c].pc = "save" /\ callers'[c].pc = "done"
         /\ AllChunksWritten(c)
         /\ callers[c].summaries > 0
         /\ callers[c].guide.summary # NoValue
         /\ canon'.summaryText = callers[c].guide.summary
         /\ canon'.chunks = {[id |-> ch.id, explanationText |-> ch.explanation]
                             : ch \in callers[c].guide.chunks}
         /\ {ch.id : ch \in canon'.chunks} =
              UNION {{<<k, i>> : i \in 0..(upstream[k] - 1)} : k \in Corpora}]_vars

\* A guide of two corpora was saved as ready, one of its chunks generated by
\* this request and written to the explanation store before the save.
C25_Witness ==
  /\ canon.status = "ready"
  /\ saves > 0
  /\ Cardinality(canon.chunks) = 2
  /\ \E c \in Callers :
       /\ callers[c].result = "generated"
       /\ callers[c].hasCanonicalLock
       /\ \E ch \in callers[c].guide.chunks : ~ch.cacheHit /\ explained[ch.id] # None

\* ---- C26 ----------------------------------------------------------------
\* C26: within one corpus the request of chunk 0 carries no context, and the
\* request of chunk i >= 1 carries one previous segment, the raw text of chunk
\* i-1, with the explanation that was returned for chunk i-1.
C26_PreviousContext ==
  \A c \in Callers : \A k \in Corpora :
    LET done == callers[c].tasks[k].chunks IN
    \A j \in 1..Len(done) :
      IF j = 1
      THEN done[j].previous = 0 /\ done[j].context = NoContext
      ELSE /\ done[j].previous = 1
           /\ done[j].context = [source |-> <<k, j - 2>>,
                                 explanation |-> done[j - 1].explanation]

\* Two corpora are half-way, their requests interleaved: one has sent the
\* request of its third chunk with the context of the second, the other has
\* only explained its first chunk.
C26_Witness ==
  \E c \in Callers : \E k \in Corpora : \E k2 \in Corpora \ {k} :
    /\ Len(callers[c].tasks[k].chunks) = 3
    /\ callers[c].tasks[k].chunks[3].context = [source |-> <<k, 1>>, explanation |-> "text"]
    /\ callers[c].tasks[k].chunks[2].context = [source |-> <<k, 0>>, explanation |-> "empty"]
    /\ Len(callers[c].tasks[k2].chunks) = 1
    /\ callers[c].tasks[k2].n > 1

\* ---- C27 ----------------------------------------------------------------
\* The number of attempts made on each model so far.
Attempts(model) == Cardinality({i \in 1..Len(gw.tried) : gw.tried[i] = model})

\* The place of a model in the order preferred, cost, fallback.
CandidateRank(model) ==
  IF model = gw.preferred THEN 1 ELSE IF model = ModelCost THEN 2 ELSE 3

CascadeOver == llm.pc \in {"returned", "thrown"}

\* C27: generateTextWithFallback terminates (until it has returned or thrown
\* it always has a next step, and it makes at most maxRetries attempts on each
\* candidate); the candidates are tried in the order preferred, cost,
\* fallback, each model once; it sleeps 400 * 2^(k-1) ms exactly after a
\* failed transient attempt k that is followed by attempt k+1 on the same
\* candidate; and when it throws, it throws the error of its last attempt.
C27_CascadeTerminates ==
  /\ [](~CascadeOver => ENABLED (RaceStart \/ RaceTimedOut \/ RaceBackoff))
  /\ [](\A model \in Models : Attempts(model) <= llm.maxRetries)
  /\ [](\A i \in 1..Len(gw.tried) : \A j \in i..Len(gw.tried) :
          CandidateRank(gw.tried[i]) <= CandidateRank(gw.tried[j]))
  /\ [](gw.tried # <<>> => gw.tried[1] = gw.preferred)
  /\ [](llm.pc = "sleep" =>
          /\ isTransientError(gw.error)
          /\ llm.sleepMs = BackoffBaseMs * Pow2(llm.attempt - 1)
          /\ llm.attempt = Attempts(gw.model))
  /\ [][/\ (llm.pc = "sleep" /\ llm'.pc # "sleep") =>
              /\ llm'.pc = "attempt"
              /\ llm'.idx = llm.idx
              /\ llm'.attempt = llm.attempt + 1
        /\ (llm.pc = "attempt" /\ llm'.pc = "attempt" /\ llm' # llm) =>
              /\ llm'.idx = llm.idx + 1
              /\ llm'.attempt = 1
              /\ gw'.slept = gw.slept]_vars
  /\ [](llm.pc = "thrown" =>
          /\ llm.lastError = gw.error
          /\ gw.pc = "thrown"
          /\ \A i \in 1..Len(llm.cands) : Attempts(llm.cands[i]) >= 1)

\* The cascade threw after three transient failures on each of its three
\* candidates, having slept 400 and 800 ms on each of them.
C27_Witness ==
  /\ llm.pc = "thrown"
  /\ Len(gw.tried) = 9
  /\ gw.slept = <<400, 800, 400, 800, 400, 800>>
  /\ gw.tried[1] = ModelPrimary
  /\ gw.tried[9] = ModelFallback

\* ---- C28 ----------------------------------------------------------------
\* An attempt of the cascade returned text on this step.
AttemptSucceeds == gw.pc = "racing" /\ gw'.pc = "returned"

\* C28 as stated: a successful attempt does not stop the iteration, which
\* goes on through the candidates that remain.
C28_AsStated ==
  [][(AttemptSucceeds /\ llm.idx < Len(llm.cands)) => ~(llm'.pc = "returned")]_vars

\* C28: the candidate loop starts from the caller's preferred model and moves
\* to the next candidate only after a failed attempt; the first successful
\* attempt, on a first try or on a retry, returns its text with that model as
\* modelUsed, and no attempt is made after it.
C28_SuccessStops ==
  /\ [](gw.tried # <<>> => gw.tried[1] = gw.preferred)
  /\ [][/\ AttemptSucceeds =>
              /\ llm'.pc = "returned"
              /\ llm'.modelUsed = gw.model
              /\ llm'.usedFallback = (gw.model # gw.preferred)
        /\ llm'.idx # llm.idx => (gw'.pc = "thrown" /\ gw'.error = llm'.lastError)
        /\ llm.pc = "returned" => (llm' = llm /\ gw'.tried = gw.tried)]_vars

\* The preferred model answered on its second attempt, after a transient
\* failure and a sleep, and neither the cost nor the fallback model was called.
C28_Witness ==
  /\ llm.pc = "returned"
  /\ gw.tried = <<ModelPrimary, ModelPrimary>>
  /\ gw.slept = <<400>>
  /\ llm.modelUsed = ModelPrimary
  /\ ~llm.usedFallback
  /\ Len(llm.cands) = 3

\* ---- C29 ----------------------------------------------------------------
\* A generation abandoned by a timed-out attempt completes on this step.
CompletesLate == gw'.late = gw.late + 1

\* C29 as stated: the caller of a timed-out attempt receives only the timeout
\* error, a generation that completes afterwards is never returned to any
\* caller, and its late completion is logged as a leak.
C29_AsStated ==
  [][/\ (gw.pc = "racing" /\ gw'.timedOut) =>
           (gw'.pc = "thrown" /\ gw'.error = TimeoutError /\ llm'.lastError = TimeoutError)
     /\ CompletesLate => (llm' = llm /\ gw'.leakLog = gw.leakLog + 1)]_vars

\* ---- C30 ----------------------------------------------------------------
\* The repair round is running: the model whose output failed validation is
\* flow.modelUsed.
Repairing == flow.pc = "repair"

\* C30 as stated: every attempt of the repair round targets the model that
\* produced the invalid output, and the modelUsed returned is that model.
C30_AsStated ==
  Repairing =>
    /\ llm.pc \in {"attempt", "sleep"} => llm.cands[llm.idx] = flow.modelUsed
    /\ llm.pc = "returned" => llm.modelUsed = flow.modelUsed

\* C30: the repair round is a cascade of its own, with the model that produced
\* the invalid output as its preferred candidate and 2 attempts per candidate:
\* its attempts target that model until an attempt on it fails for good, then
\* the cost and fallback candidates; the modelUsed returned and stored is the
\* model that answered the repair.
C30_RepairStartsOnSameModel ==
  /\ [](Repairing =>
          /\ llm.cands[1] = flow.modelUsed
          /\ llm.maxRetries = 2
          /\ llm.attempt <= 2
          /\ llm.idx > 1 =>
               /\ llm.lastError # NoError
               /\ llm.cands[llm.idx] # flow.modelUsed
               /\ llm.cands[llm.idx] \in {ModelCost, ModelFallback}
          /\ llm.pc = "returned" => llm.modelUsed = llm.cands[llm.idx])
  /\ [][(Repairing /\ llm.pc = "returned" /\ flow'.pc = "idle") =>
          /\ calls'[Len(calls')].modelUsed = llm.modelUsed
          /\ rabanout'[rabanutDocPath(flow.input)].modelName = llm.modelUsed]_vars

\* The preferred model produced an invalid text, failed in the repair round,
\* and the repair was answered by another candidate.
C30_Witness ==
  /\ Repairing
  /\ llm.pc = "returned"
  /\ flow.modelUsed = ModelPrimary
  /\ llm.idx = 2
  /\ llm.modelUsed = ModelCost

(***************************************************************************)
(* Siman alignment: waiting, joining, revalidation                          *)
(***************************************************************************)

\* The callers whose tryAcquireSimanLock was refused by another builder's
\* active lock.
AlignRefused == {c \in AlignCallers : al.callers[c].refused}

\* C31, as stated: a caller that cannot take the alignment lock because
\* another builder holds an active lock waits at most 180 s in total; it then
\* returns a ready record or raises the timeout error, and never builds.
C31_AsStated ==
  \A c \in AlignRefused :
    /\ al.callers[c].waited <= MAX_WAIT_FOR_READY_MS
    /\ al.callers[c].pc # "build"
    /\ al.callers[c].outcome = "returned" => al.callers[c].value.status = "ready"

\* The callers of process p whose getOrBuildSimanAlignment call is unsettled.
AlignPending(p) ==
  {c \in AlignCallers : ProcessOf[c] = p /\ al.callers[c].pc \notin {"idle", "done"}}

\* C32: within one process the in-flight entry of the key exists exactly
\* while a call is unsettled; the call that registered it is the only one that
\* loads, locks or builds, every further call only joins it, and a joined call
\* settles together with it, with the same outcome and the same value.
C32_SharedPromise ==
  \A p \in Processes :
    LET owner == al.inFlight[p] IN
    /\ (owner = None) <=> (AlignPending(p) = {})
    /\ owner # None =>
         /\ ProcessOf[owner] = p
         /\ al.callers[owner].pc \notin {"idle", "joined", "done"}
         /\ \A c \in AlignPending(p) \ {owner} :
              al.callers[c].pc = "joined" /\ al.callers[c].joined = owner
    /\ \A c \in AlignCallers :
         (ProcessOf[c] = p /\ al.callers[c].joined # None /\ al.callers[c].pc = "done") =>
           LET d == al.callers[c].joined IN
           /\ al.callers[d].pc = "done"
           /\ al.callers[c].outcome = al.callers[d].outcome
           /\ al.callers[c].value = al.callers[d].value

\* A joined call was rejected with its owner's timeout or build error and the
\* entry is gone.
C32_Witness ==
  \E c \in AlignCallers :
    /\ al.callers[c].joined # None
    /\ al.callers[c].pc = "done"
    /\ al.callers[c].outcome = "threw"
    /\ al.callers[al.callers[c].joined].outcome = "threw"
    /\ al.inFlight[ProcessOf[c]] = None

\* The stored record is ready at the current version and its sourceCheckedAt
\* is less than 12 h old.
CheckedRecently(rec, t) ==
  /\ rec.status = "ready"
  /\ rec.version = CURRENT_CACHE_VERSION
  /\ rec.sourceCheckedAt # NoTimestamp
  /\ t - rec.sourceCheckedAt < SOURCE_HASH_RECHECK_MS

ReturnsRecord(c, rec) ==
  /\ al'.callers[c].pc = "done"
  /\ al'.callers[c].outcome = "returned"
  /\ al'.callers[c].value = rec

\* The load of caller c finds a ready record of the current version: checked
\* recently, it is returned with no fetch and no write; otherwise the caller
\* goes on to fetch the corpora.
C33_LoadStep(c) ==
  (/\ al.callers[c].pc = "load"
   /\ al'.callers[c].pc # "load"
   /\ al.rec.status = "ready"
   /\ al.rec.version = CURRENT_CACHE_VERSION) =>
    /\ al'.callers[c].fetches = 0
    /\ al'.rec = al.rec
    /\ IF CheckedRecently(al.rec, al.now)
       THEN ReturnsRecord(c, al.rec)
       ELSE al'.callers[c].pc = "revalidate"

\* The fetch of caller c answers: one fetch; equal hashes return the loaded
\* record and change sourceCheckedAt only; a different hash forces the rebuild
\* and writes nothing.
C33_RevalidateStep(c) ==
  (al.callers[c].pc = "revalidate" /\ al'.callers[c].pc # "revalidate") =>
    LET existing == al.callers[c].existing
        revalidation == al'.callers[c].revalidation IN
    /\ al'.callers[c].fetches = 1
    /\ revalidation \in {"unchanged", "stale", "failed"}
    /\ revalidation # "failed" =>
         (revalidation = "unchanged" <=> existing.sourceHash = UpstreamHash)
    /\ revalidation = "unchanged" =>
         /\ ReturnsRecord(c, existing)
         /\ al'.rec = [al.rec EXCEPT !.sourceCheckedAt = al.now]
    /\ revalidation = "stale" =>
         /\ al'.callers[c].forceRebuild
         /\ al'.callers[c].pc = "lock"
         /\ al'.rec = al.rec

\* The forced rebuild of caller c ends without another fetch.
C33_RebuildStep(c) ==
  (/\ al.callers[c].pc = "build"
   /\ al'.callers[c].pc # "build"
   /\ al.callers[c].forceRebuild) =>
    al'.callers[c].fetches = 1

NoDuplicates(refs) == \A i, j \in 1..Len(refs) : refs[i] = refs[j] => i = j

\* refs lists the trimmed refs of given once each, in the order of their
\* first occurrence.
Deduplicated(refs, given) ==
  /\ NoDuplicates(refs)
  /\ SetOf(refs) = {trimRef(given[i]) : i \in 1..Len(given)}
  /\ \A i, j \in 1..Len(refs) :
       i < j => \E m \in 1..Len(given) :
                  /\ trimRef(given[m]) = refs[i]
                  /\ \A n \in 1..Len(given) : trimRef(given[n]) = refs[j] => m < n

\* The entry fields of one secondary corpus agree with the link answer given
\* and with the similarity selection over index.
MappedAsClaimed(refs, mode, score, given, failed, index) ==
  IF ~failed /\ Len(given) > 0
  THEN /\ Deduplicated(refs, given)
       /\ mode = "linked-passages"
       /\ score = <<1, 1>>
  ELSE LET fallback == selectBestRefsBySimilarity(job.text, index) IN
       /\ refs = fallback.refs
       /\ score = fallback.bestScore
       /\ mode = IF refs # <<>> THEN "fallback-similarity" ELSE "none"

\* The link answer the paragraph got, as the endpoint gave it.
JobAnswers ==
  {linked \in LinkAnswers :
     /\ linked.failed = job.linked.failed
     /\ ~linked.failed => /\ dedupeRefs(linked.turRefs, {}) = job.linked.turRefs
                          /\ dedupeRefs(linked.beitYosefRefs, {}) = job.linked.beitYosefRefs}

\* C34: in the entry of a paragraph, each secondary corpus has the linked
\* refs deduplicated, mode linked-passages and score 1 when the link lookup
\* gave a ref of it, and otherwise the similarity selection with mode
\* fallback-similarity or, when empty, none; mode is none exactly when refs is
\* empty, refs has no duplicates, and confidence is the mean of the two scores
\* rounded to 3 decimals.
C34_ParagraphEntry ==
  job.pc = "done" =>
    \E linked \in JobAnswers : \E turScore, byScore \in {<<1, 1>>} \cup
         {selectBestRefsBySimilarity(job.text, index).bestScore :
            index \in {job.turIndex, job.byIndex}} :
      LET entry == job.entry
          mean == meanScore(turScore, byScore)
          gap == 1000 * mean[1] - entry.confidence[1] * mean[2]
      IN
      /\ MappedAsClaimed(entry.turRefs, entry.turMode, turScore,
                         linked.turRefs, linked.failed, job.turIndex)
      /\ MappedAsClaimed(entry.byRefs, entry.byMode, byScore,
                         linked.beitYosefRefs, linked.failed, job.byIndex)
      /\ (entry.turMode = "none") <=> (entry.turRefs = <<>>)
      /\ (entry.byMode = "none") <=> (entry.byRefs = <<>>)
      /\ NoDuplicates(entry.turRefs) /\ NoDuplicates(entry.byRefs)
      /\ entry.confidence[2] = 1000
      /\ 2 * gap <= mean[2] /\ -2 * gap <= mean[2]

\* One corpus is linked through refs that repeat, the other falls back to
\* similarity, and the mean of the scores needs rounding.
C34_Witness ==
  /\ job.pc = "done"
  /\ job.entry.turMode = "linked-passages"
  /\ job.entry.turRefs = <<"Tur 1">>
  /\ job.entry.byMode = "fallback-similarity"
  /\ job.entry.confidence \notin {<<1000, 1000>>, <<0, 1000>>}
  /\ \A n \in 0..1000 :
       LET mean == meanScore(<<1, 1>>,
                     selectBestRefsBySimilarity(job.text, job.byIndex).bestScore)
       IN n * mean[2] # 1000 * mean[1]

(***************************************************************************)
(* Similarity selection: what is kept                                       *)
(***************************************************************************)

\* The positions of scored whose score reaches max(0.08, 0.6 * best).
KeptPositions(scored, best) ==
  {i \in 1..Len(scored) :
     /\ AtLeast(scored[i].score, <<2, 25>>)
     /\ AtLeast(scored[i].score, <<3 * best[1], 5 * best[2]>>)}

\* Candidate j ranks before candidate i: a higher score, or the same score
\* earlier in upstream order.
Outranks(scored, j, i) ==
  \/ Above(scored[j].score, scored[i].score)
  \/ /\ AtLeast(scored[j].score, scored[i].score)
     /\ AtLeast(scored[i].score, scored[j].score)
     /\ scored[j].index < scored[i].index

\* The 12 first-ranked of the kept positions.
TopPositions(scored, best) ==
  LET kept == KeptPositions(scored, best) IN
  {i \in kept : Cardinality({j \in kept : Outranks(scored, j, i)}) < 12}

\* C35: selectBestRefsBySimilarity returns no ref when the best score is
\* below 0.05; otherwise it returns the refs of the candidates that score at
\* least max(0.08, 0.6 * best), of these only the 12 highest-scoring with ties
\* broken by upstream order, listed in upstream order, each ref once at its
\* first occurrence.
C35_Selection ==
  (sim.done /\ sim.selection.scored # <<>>) =>
    LET scored == sim.selection.scored
        refs == sim.selection.refs
    IN \E b \in 1..Len(scored) :
         /\ \A j \in 1..Len(scored) : AtLeast(scored[b].score, scored[j].score)
         /\ sim.selection.bestScore = scored[b].score
         /\ IF Above(<<1, 20>>, scored[b].score)
            THEN refs = <<>>
            ELSE LET top == TopPositions(scored, scored[b].score) IN
                 /\ NoDuplicates(refs)
                 /\ SetOf(refs) = {scored[i].ref : i \in top}
                 /\ \A p, q \in 1..Len(refs) :
                      p < q => \E i \in top :
                                 /\ scored[i].ref = refs[p]
                                 /\ \A j \in top : scored[j].ref = refs[q] =>
                                                     scored[i].index < scored[j].index

\* More than 12 candidates reach the threshold, some candidate stays under
\* it, a kept candidate of lower score is dropped for a later one of higher
\* score, and two selected candidates share a ref.
C35_Witness ==
  /\ sim.done
  /\ LET scored == sim.selection.scored
         best == sim.selection.bestScore
         kept == KeptPositions(scored, best)
         top == TopPositions(scored, best)
     IN /\ Cardinality(kept) > 12
        /\ Cardinality(kept) < Len(scored)
        /\ \E i \in kept \ top : \E j \in top : scored[i].index < scored[j].index
        /\ \E i, j \in top : i # j /\ scored[i].ref = scored[j].ref
        /\ sim.selection.refs # <<>>

(***************************************************************************)
(* Fetch of an aligned corpus: when the response is empty                   *)
(***************************************************************************)

\* The fetch ended with the empty response and no explanation call.
EmptyResponse ==
  /\ fs.payload.fetchMode = "linked-passages"
  /\ fs.payload.segments = 0
  /\ fs.explainCalls = 0

\* C36, as stated: when the alignment entry of the requested paragraph has an
\* empty ref list (predecessor-code) or a mode other than linked-passages
\* (source-compendium) and the fetch used it, the corpus gets the empty
\* response and no explanation call.
C36_AsStated ==
  LET unusable ==
        \/ fs.sourceKey = "tur" /\ fs.entry.turRefs = <<>>
        \/ fs.sourceKey = "beit_yosef" /\ fs.entry.byMode # "linked-passages"
  IN (/\ fs.pc = "done"
      /\ fs.entry.present
      /\ fs.returnedBy \in {"slice", "lookup"}
      /\ unusable) => EmptyResponse

\* C36, amended: the source-compendium gets the empty response and no
\* explanation call when the lookup finds its entry with a mode other than
\* linked-passages; the predecessor-code gets them when the boundary slicing,
\* tried first whatever the entry says, gave no segments and the lookup
\* finds its entry with an empty ref list.
C36_EmptyWithoutRefs ==
  (/\ fs.pc = "done"
   /\ fs.mapping.present
   /\ \/ fs.sourceKey = "tur" /\ fs.mapping.turRefs = <<>>
      \/ fs.sourceKey = "beit_yosef" /\ fs.mapping.byMode # "linked-passages")
  => EmptyResponse

\* The slicing of the predecessor-code gave nothing, its entry has no ref,
\* and the corpus is left empty and unexplained.
C36_Witness ==
  /\ fs.pc = "done"
  /\ fs.sourceKey = "tur"
  /\ fs.sliced
  /\ fs.mapping.present
  /\ fs.mapping.turRefs = <<>>
  /\ fs.returnedBy = "lookup"
  /\ EmptyResponse

(***************************************************************************)
(* Canonical guide: the validated flag                                      *)
(***************************************************************************)

\* The validations of the chunk explanations caller c collected.
ChunkValidations(c) ==
  UNION {{callers[c].tasks[k].chunks[i].validated :
            i \in 1..Len(callers[c].tasks[k].chunks)} : k \in Corpora}

\* C37: the validated flag of the guide the orchestrator returns, and of the
\* ready canonical record it stored, is true exactly when the summary
\* validated and every chunk explanation of every processed corpus has
\* validated = true.
C37_ValidatedFlag ==
  \A c \in Callers :
    callers[c].result = "generated" =>
      LET flag == callers[c].summaryValidated /\ FALSE \notin ChunkValidations(c) IN
      /\ callers[c].validated = flag
      /\ (canon.status = "ready" /\ saves > 0) => canon.validated = flag

\* The summary validated and a stored explanation that had not validated was
\* a hit next to a fresh one that validated: the guide returned and the ready
\* record stored both carry validated = false.
C37_Witness ==
  \E c \in Callers :
    /\ callers[c].result = "generated"
    /\ callers[c].summaryValidated
    /\ ChunkValidations(c) = {TRUE, FALSE}
    /\ \E k \in Corpora : \E i \in 1..Len(callers[c].tasks[k].chunks) :
         LET ch == callers[c].tasks[k].chunks[i] IN ch.cacheHit /\ ~ch.validated
    /\ canon.status = "ready"
    /\ saves > 0
    /\ ~canon.validated
    /\ ~callers[c].validated

\* The call ran the cascade on a full miss and returned its explanation.
GeneratedOnMiss(out) == ~out.thrown /\ ~out.cacheHit /\ out.firstValid # None

\* The legacy entry of a model holds the explanation a call returned.
LegacyHolds(out, model) ==
  LET d == legacy[generateLegacyCacheKey(out.input, model)] IN
  d # NoRecord /\ d.explanationText = out.explanation

RegeneratedAfterReady(c) ==
  /\ Returns(c)
  /\ callers[c].first = "ready"
  /\ callers'[c].result = "generated"

\* C39 as stated: a caller that got 'ready' but could not load the guide
\* re-acquires the lock, regenerates and overwrites the canonical record, so
\* that after its run the guide can be loaded from the cache.
C39_AsStated ==
  [][\A c \in Callers :
       RegeneratedAfterReady(c) =>
         /\ callers[c].hasCanonicalLock
         /\ canon' # canon
         /\ loadCanonicalGuide(canon') # NoGuide]_vars

====
